---- MODULE Spec2Model ----
(***************************************************************************)
(* The pinned-memory pool of the AI driver (gpu_integration.c) and the     *)
(* callers that reach it: AllocatePinnedMemory, FreePinnedMemory,          *)
(* GetMemoryPoolStatus, CleanupPinnedMemory, and the IOCTL handler         *)
(* HandleAllocPinned (ioctl_handlers.c).                                   *)
(*                                                                         *)
(* Each caller is a thread with a program counter.  Every access to shared *)
(* state (the list, the pool status, the two spinlocks, the system pool)   *)
(* is a step of its own, so that the interleavings of the code are the     *)
(* interleavings of the model.  Local computation is folded into the step  *)
(* that precedes it.                                                       *)
(*                                                                         *)
(* ULONG64 values are held as integers that stand for their value modulo   *)
(* 2^64: a negative integer -k stands for 2^64 - k.  Comparisons go        *)
(* through U64GT.  4096 divides 2^64, so % 4096 is the same on both.       *)
(***************************************************************************)
EXTENDS Integers, Sequences, FiniteSets, TLC

\* ---- bounds of the model
NumThreads == 2
MaxAllocs == 2
MaxAddr == 2

\* ---- program constants
AI_MEMORY_POOL_SIZE == 256 * 1024 * 1024
BLOCK_SIZE == 4096
SIZEOF_MEMORY_POOL_STATUS == 32
\* GPU_STATUS as gpu_integration.c declares it (lines 25-30): FLOAT, ULONG64,
\* ULONG64, FLOAT with the ULONG64s aligned to 8 bytes
SIZEOF_GPU_STATUS == 32
SIZEOF_SCHEDULER_STATS == 12
\* The structures as ioctl_handlers.c declares them, under #pragma pack(1)
\* (lines 23-46)
SIZEOF_PACKED_GPU_STATUS == 24
SIZEOF_PACKED_MEMORY_POOL_STATUS == 32
SIZEOF_PACKED_SCHEDULER_STATS == 12
SIZEOF_UINT64 == 8
\* the function numbers of the CTL_CODEs (ai_driver_ioctl.c lines 14-21)
IOCTL_AI_GET_STATS == 2048
IOCTL_AI_SET_GPU_UTIL == 2049
IOCTL_AI_BOOST_PRIORITY == 2050
IOCTL_AI_GET_GPU_STATUS == 2051
IOCTL_AI_GET_MEMORY_POOL == 2052
IOCTL_AI_GET_SCHEDULER_STATS == 2053
IOCTL_AI_ALLOC_PINNED == 2054
IOCTL_AI_FREE_PINNED == 2055
\* g_GpuInfo.MemorySize when the registry has no size (line 127), in MiB
GPU_MEMORY_DEFAULT_MIB == 10 * 1024

MiB == 1024 * 1024

Threads == 1 .. NumThreads
Ids == 1 .. MaxAllocs
Addrs == 1 .. MaxAddr

\* Sizes a caller may ask for: zero, a size that is no multiple of the block
\* size, two sizes that fit together, two that do not, the whole pool, and one
\* byte more than the pool.
SizeInputs == {0, 100, 100 * MiB, 200 * MiB, AI_MEMORY_POOL_SIZE, AI_MEMORY_POOL_SIZE + 1}
\* The sizes concurrent callers ask for: 0 and one byte more than the pool fail
\* the parameter check, 100 and 200 MiB fit together, 200 MiB and 200 MiB do not.
ConcurrentSizes == {0, 100, 200 * MiB, AI_MEMORY_POOL_SIZE + 1}
\* Handle values a caller may pass to Free: zero and every address.
AddressInputs == 0 .. MaxAddr
\* Output buffer lengths a direct caller of GetMemoryPoolStatus may pass.
LengthInputs == {10, SIZEOF_MEMORY_POOL_STATUS}
\* Input and output buffer lengths of a request for the pinned-memory commands.
BufferLengths == {0, 4, SIZEOF_UINT64}

\* ---- NTSTATUS values
STATUS_SUCCESS == "STATUS_SUCCESS"
STATUS_INVALID_PARAMETER == "STATUS_INVALID_PARAMETER"
STATUS_INSUFFICIENT_RESOURCES == "STATUS_INSUFFICIENT_RESOURCES"
STATUS_NOT_FOUND == "STATUS_NOT_FOUND"
STATUS_BUFFER_TOO_SMALL == "STATUS_BUFFER_TOO_SMALL"
STATUS_NOT_IMPLEMENTED == "STATUS_NOT_IMPLEMENTED"
STATUS_INVALID_DEVICE_REQUEST == "STATUS_INVALID_DEVICE_REQUEST"
NoStatus == "none"

VARIABLES
    g_PinnedMemoryList,         \* sequence of PINNED_MEMORY_ENTRY, head first
    g_MemoryPoolStatus,         \* MEMORY_POOL_STATUS
    g_GpuStatus,                \* GPU_STATUS: the status GetGpuStatus handed out last
    g_SchedulerStats,           \* SCHEDULER_STATS
    g_PinnedMemoryInitialized,  \* BOOLEAN
    g_PinnedMemoryLock,         \* 0, or the thread that holds the spinlock
    g_StatsLock,                \* 0, or the thread that holds the spinlock
    live,                       \* system pool: the <<id, part>> blocks allocated and not freed
    heap,                       \* system pool: the addresses of the live buffers
    releasedBy,                 \* history: id -> who released its buffer
    doubleFree,                 \* history: a block was freed that was not live
    nextId,                     \* history: identity of the next backing region
    pc,                         \* thread -> position in its call
    call,                       \* thread -> the call it is in (function and arguments)
    loc,                        \* thread -> the call's local variables
    ret,                        \* thread -> what the call returned
    completions,                \* thread -> how often its request has been completed
    trip                        \* history: what the caller of a round trip has noted

vars == <<g_PinnedMemoryList, g_MemoryPoolStatus, g_GpuStatus, g_SchedulerStats,
          g_PinnedMemoryInitialized,
          g_PinnedMemoryLock, g_StatsLock, live, heap, releasedBy, doubleFree,
          nextId, pc, call, loc, ret, completions, trip>>

poolVars == <<g_PinnedMemoryList, g_MemoryPoolStatus>>
lockVars == <<g_PinnedMemoryLock, g_StatsLock>>
backingVars == <<live, heap, releasedBy, doubleFree, nextId>>
telemetryVars == <<g_GpuStatus, g_SchedulerStats>>

\* ---- ULONG64 arithmetic on representatives
\* a > b as unsigned 64-bit values
U64GT(a, b) == IF (a < 0) = (b < 0) THEN a > b ELSE a < 0

\* ---- records
NoCall == [fn |-> "none", via |-> "direct", Size |-> 0, Address |-> 0,
           hasOut |-> FALSE, outLen |-> 0, inLen |-> 0, code |-> 0,
           aiProcesses |-> 0, hasDevice |-> TRUE, hasIrp |-> TRUE]
NoLoc == [buffer |-> 0, id |-> 0, sizeToFree |-> 0]
NoSnapshot == [TotalSize |-> 0, UsedSize |-> 0, FreeSize |-> 0, BlockCount |-> 0,
               FragmentationRatio |-> 0]
\* written: the bytes the call wrote into the caller's buffer
NoRet == [status |-> NoStatus, Address |-> 0, out |-> NoSnapshot, information |-> 0,
          written |-> 0]
NoGpuStatus == [Utilization |-> 0, MemoryUsed |-> 0, MemoryTotal |-> 0,
                Temperature |-> 0]
NoSchedulerStats == [AiProcesses |-> 0, ScheduledTasks |-> 0, AverageLatencyMs |-> 0]
\* What the caller of a round trip notes: how far it is, the registry and the
\* pool status before its first call, the two sizes it asked for, and the handle
\* its first call returned
NoTrip == [stage |-> "none", list |-> <<>>, status |-> NoSnapshot,
           a |-> 0, b |-> 0, handle |-> 0]

\* PINNED_MEMORY_ENTRY: Address and KernelAddress are the buffer's address, Mdl is
\* the descriptor of the same region; id names the region in the history variables.
Entry(buffer, Size, id) == [Address |-> buffer, Size |-> Size, id |-> id]

\* (FLOAT)((ULONG)(UsedSize % 4096)) / 4096.0f, held as its numerator over 4096
Fragmentation(UsedSize) == UsedSize % BLOCK_SIZE

RECURSIVE SumSizes(_)
SumSizes(list) == IF list = <<>> THEN 0 ELSE Head(list).Size + SumSizes(Tail(list))

\* ---- the system pool (ExAllocatePoolWithTag, IoAllocateMdl and their releases)
Parts == {"buffer", "mdl", "entry"}
RegionBlocks(id) == {<<id, p>> : p \in Parts}

\* ---- InitializeGpuStats and InitializePinnedMemory, as DriverEntry runs them
InitMemoryPoolStatus ==
    [TotalSize |-> AI_MEMORY_POOL_SIZE, UsedSize |-> 0,
     FreeSize |-> AI_MEMORY_POOL_SIZE, BlockCount |-> 0, FragmentationRatio |-> 0]

Init ==
    /\ g_PinnedMemoryList = <<>>
    /\ g_MemoryPoolStatus = InitMemoryPoolStatus
    /\ g_GpuStatus = NoGpuStatus
    /\ g_SchedulerStats = NoSchedulerStats
    /\ g_PinnedMemoryInitialized = TRUE
    /\ g_PinnedMemoryLock = 0
    /\ g_StatsLock = 0
    /\ live = {}
    /\ heap = {}
    /\ releasedBy = [i \in Ids |-> "none"]
    /\ doubleFree = FALSE
    /\ nextId = 1
    /\ pc = [t \in Threads |-> "idle"]
    /\ call = [t \in Threads |-> NoCall]
    /\ loc = [t \in Threads |-> NoLoc]
    /\ ret = [t \in Threads |-> NoRet]
    /\ completions = [t \in Threads |-> 0]
    /\ trip = NoTrip

\* ---- returning from a call
Status(s) == [NoRet EXCEPT !.status = s]

\* The dispatcher's status left at the value of ai_driver_ioctl.c line 43: the
\* handler's return value is not taken
Complete_StatusDropped(c, r) ==
    IF c.via = "direct" THEN r ELSE Status(STATUS_INVALID_DEVICE_REQUEST)

\* The request completed with the number of bytes the function wrote
Complete_BytesWritten(c, r) ==
    IF c.via = "direct" THEN r
    ELSE IF r.status # STATUS_SUCCESS
    THEN [r EXCEPT !.information = 0, !.Address = 0]
    ELSE [r EXCEPT !.information = r.written]

\* ioctl_handlers.c lines 84-91, 132-139, 180-187, 244-261 and 310-323,
\* ai_driver_ioctl.c lines 72-137: what
\* a handler makes of the status its pool function returned, and what the
\* request is completed with.  A direct caller gets the function's own result.
Complete(c, r) ==
    IF c.via = "direct" THEN r
    ELSE IF r.status # STATUS_SUCCESS
    THEN [r EXCEPT !.information = 0, !.Address = 0]
    ELSE IF c.code = IOCTL_AI_ALLOC_PINNED THEN [r EXCEPT !.information = SIZEOF_UINT64]
    ELSE IF c.code = IOCTL_AI_GET_GPU_STATUS
    THEN [r EXCEPT !.information = SIZEOF_PACKED_GPU_STATUS]
    ELSE IF c.code = IOCTL_AI_GET_MEMORY_POOL
    THEN [r EXCEPT !.information = SIZEOF_PACKED_MEMORY_POOL_STATUS]
    ELSE IF c.code = IOCTL_AI_GET_SCHEDULER_STATS
    THEN [r EXCEPT !.information = SIZEOF_PACKED_SCHEDULER_STATS]
    ELSE [r EXCEPT !.information = 0]

\* The return at ai_driver_ioctl.c line 55 left out: the request of a queue
\* without a device is completed there and again at line 137
CompletionsAfter_FallsThrough(c, n) ==
    IF c.via = "direct" THEN n
    ELSE IF ~c.hasDevice THEN n + 2
    ELSE n + 1

\* ai_driver_ioctl.c lines 54, 61 and 137: the callback completes the request
\* where it ends; a direct call has no request
CompletionsAfter(c, n) == IF c.via = "direct" THEN n ELSE n + 1

\* The call c of thread t ends with the result r.
Return(t, c, r) ==
    /\ pc' = [pc EXCEPT ![t] = "done"]
    /\ ret' = [ret EXCEPT ![t] = Complete(c, r)]
    /\ completions' = [completions EXCEPT ![t] = CompletionsAfter(c, completions[t])]

\* The caller has looked at the result and is ready for its next call.
Forget(t) ==
    /\ pc[t] = "done"
    /\ pc' = [pc EXCEPT ![t] = "idle"]
    /\ call' = [call EXCEPT ![t] = NoCall]
    /\ loc' = [loc EXCEPT ![t] = NoLoc]
    /\ ret' = [ret EXCEPT ![t] = NoRet]
    /\ completions' = [completions EXCEPT ![t] = 0]
    /\ UNCHANGED <<poolVars, g_PinnedMemoryInitialized, lockVars, backingVars,
                   telemetryVars>>

Finish(t) == Forget(t) /\ UNCHANGED trip

\* ---- spinlocks (KeAcquireSpinLock spins until the lock is free)
\* KeReleaseSpinLock that leaves the lock with its holder
Release_Kept(lock, t) == lock = t /\ lock' = lock

Acquire(lock, t) == lock = 0 /\ lock' = t
Release(lock, t) == lock = t /\ lock' = 0

\* ======================= AllocatePinnedMemory ==========================
\* The parameter check without Size == 0
AllocParamsInvalid_ZeroAllowed(hasAddress, Size) ==
    ~hasAddress \/ Size > AI_MEMORY_POOL_SIZE

\* The parameter check without Size > AI_MEMORY_POOL_SIZE: the size goes on to
\* the capacity check
AllocParamsInvalid_NoUpperBound(hasAddress, Size) ==
    ~hasAddress \/ Size = 0

\* line 408: the parameter check
AllocParamsInvalid(hasAddress, Size) ==
    ~hasAddress \/ Size = 0 \/ Size > AI_MEMORY_POOL_SIZE

\* The capacity check with >= for >: a request that fills the pool is refused
AllocOverCapacity_OffByOne(UsedSize, Size) ==
    ~U64GT(AI_MEMORY_POOL_SIZE, UsedSize + Size)

\* The capacity check on the size alone, whatever is in use
AllocOverCapacity_IgnoresUsed(UsedSize, Size) == U64GT(Size, AI_MEMORY_POOL_SIZE)

\* line 412: the capacity check, on the UsedSize read without a lock
AllocOverCapacity(UsedSize, Size) == U64GT(UsedSize + Size, AI_MEMORY_POOL_SIZE)

\* The update without lines 452-453: the fragmentation ratio stays as it was
StatsAfterAllocate_StaleRatio(ps, Size) ==
    [ps EXCEPT !.UsedSize = ps.UsedSize + Size,
               !.FreeSize = ps.TotalSize - (ps.UsedSize + Size)]

\* The update with UsedSize = Size for UsedSize += Size
StatsAfterAllocate_Assigned(ps, Size) ==
    [ps EXCEPT !.UsedSize = Size,
               !.FreeSize = ps.TotalSize - Size,
               !.FragmentationRatio = Fragmentation(Size)]

\* lines 450-453: the update of the pool status
StatsAfterAllocate(ps, Size) ==
    LET used == ps.UsedSize + Size
    IN  [ps EXCEPT !.UsedSize = used,
                   !.FreeSize = ps.TotalSize - used,
                   !.FragmentationRatio = Fragmentation(used)]

\* lines 408-414: entry, parameter check, capacity check
AllocatePinnedMemory_Entry(t, c) ==
    /\ call' = [call EXCEPT ![t] = c]
    /\ IF AllocParamsInvalid(c.hasOut, c.Size)
       THEN Return(t, c, Status(STATUS_INVALID_PARAMETER))
       ELSE IF AllocOverCapacity(g_MemoryPoolStatus.UsedSize, c.Size)
       THEN Return(t, c, Status(STATUS_INSUFFICIENT_RESOURCES))
       ELSE pc' = [pc EXCEPT ![t] = "A_backing"] /\ UNCHANGED <<ret, completions>>
    /\ UNCHANGED <<poolVars, g_PinnedMemoryInitialized, trip, telemetryVars, lockVars, backingVars, loc>>

\* A direct call AllocatePinnedMemory(Size, Address)
CallAllocate(t, Sizes, Flags) ==
    /\ pc[t] = "idle"
    /\ \E Size \in Sizes, hasAddress \in Flags :
          AllocatePinnedMemory_Entry(t,
              [NoCall EXCEPT !.fn = "Allocate", !.Size = Size, !.hasOut = hasAddress])

\* The rollback without ExFreePoolWithTag(buffer): the buffer stays allocated
RollbackMdlFailure_BufferKept(blocks, id) == blocks

\* line 425: IoAllocateMdl failed, the buffer goes back
RollbackMdlFailure(blocks, id) == blocks \ {<<id, "buffer">>}
\* lines 435-436: the entry allocation failed, the MDL and the buffer go back
RollbackEntryFailure(blocks, id) == blocks \ {<<id, "mdl">>, <<id, "buffer">>}

\* lines 416-443: the buffer, its MDL and the list entry are allocated from the
\* system pool.  Each of the three allocations may fail.  A buffer is only
\* handed out at an address no live buffer has.
AllocBacking(t) ==
    /\ pc[t] = "A_backing"
    /\ \/ \* line 417: no buffer
          /\ Return(t, call[t], Status(STATUS_INSUFFICIENT_RESOURCES))
          /\ UNCHANGED <<backingVars, loc>>
       \/ \* line 424: a buffer, no MDL
          /\ nextId \in Ids /\ heap # Addrs
          /\ live' = RollbackMdlFailure(live \cup {<<nextId, "buffer">>}, nextId)
          /\ Return(t, call[t], Status(STATUS_INSUFFICIENT_RESOURCES))
          /\ UNCHANGED <<heap, releasedBy, doubleFree, nextId, loc>>
       \/ \* line 434: a buffer and an MDL, no entry
          /\ nextId \in Ids /\ heap # Addrs
          /\ live' = RollbackEntryFailure(
                         live \cup {<<nextId, "buffer">>, <<nextId, "mdl">>}, nextId)
          /\ Return(t, call[t], Status(STATUS_INSUFFICIENT_RESOURCES))
          /\ UNCHANGED <<heap, releasedBy, doubleFree, nextId, loc>>
       \/ \* lines 440-443: all three
          /\ nextId \in Ids
          /\ \E buffer \in Addrs \ heap :
                /\ heap' = heap \cup {buffer}
                /\ loc' = [loc EXCEPT ![t] = [NoLoc EXCEPT !.buffer = buffer,
                                                           !.id = nextId]]
          /\ live' = live \cup RegionBlocks(nextId)
          /\ nextId' = nextId + 1
          /\ pc' = [pc EXCEPT ![t] = "A_lock"]
          /\ UNCHANGED <<releasedBy, doubleFree, ret, completions>>
    /\ UNCHANGED <<poolVars, g_PinnedMemoryInitialized, trip, telemetryVars, lockVars, call>>

\* line 445
AllocLock(t) ==
    /\ pc[t] = "A_lock"
    /\ Acquire(g_PinnedMemoryLock, t)
    /\ pc' = [pc EXCEPT ![t] = "A_insert"]
    /\ UNCHANGED <<poolVars, g_PinnedMemoryInitialized, trip, telemetryVars, g_StatsLock, backingVars,
                   call, loc, ret, completions>>

\* lines 446-447: InsertTailList, and the lock is released
AllocInsert(t) ==
    /\ pc[t] = "A_insert"
    /\ g_PinnedMemoryList' =
          Append(g_PinnedMemoryList, Entry(loc[t].buffer, call[t].Size, loc[t].id))
    /\ Release(g_PinnedMemoryLock, t)
    /\ pc' = [pc EXCEPT ![t] = "A_slock"]
    /\ UNCHANGED <<g_MemoryPoolStatus, g_PinnedMemoryInitialized, trip, telemetryVars, g_StatsLock,
                   backingVars, call, loc, ret, completions>>

\* line 449
AllocStatsLock(t) ==
    /\ pc[t] = "A_slock"
    /\ Acquire(g_StatsLock, t)
    /\ pc' = [pc EXCEPT ![t] = "A_stats"]
    /\ UNCHANGED <<poolVars, g_PinnedMemoryInitialized, trip, telemetryVars, g_PinnedMemoryLock,
                   backingVars, call, loc, ret, completions>>

\* lines 450-454: the pool status is updated, and the lock is released
AllocStats(t) ==
    /\ pc[t] = "A_stats"
    /\ g_MemoryPoolStatus' = StatsAfterAllocate(g_MemoryPoolStatus, call[t].Size)
    /\ Release(g_StatsLock, t)
    /\ pc' = [pc EXCEPT ![t] = "A_ret"]
    /\ UNCHANGED <<g_PinnedMemoryList, g_PinnedMemoryInitialized, trip, telemetryVars, g_PinnedMemoryLock,
                   backingVars, call, loc, ret, completions>>

\* lines 456-458: *Address = entry->Address.  The entry is in the list by now, so
\* a concurrent Free or Cleanup may have freed it: the read is then a read of
\* freed memory, which may give any value.
AllocReturn(t) ==
    /\ pc[t] = "A_ret"
    /\ \E a \in AddressInputs :
          /\ <<loc[t].id, "entry">> \in live => a = loc[t].buffer
          /\ Return(t, call[t], [Status(STATUS_SUCCESS) EXCEPT
                                      !.Address = a, !.written = SIZEOF_UINT64])
    /\ UNCHANGED <<poolVars, g_PinnedMemoryInitialized, trip, telemetryVars, lockVars, backingVars,
                   call, loc>>

\* ========================= FreePinnedMemory ============================
\* lines 479-493: the index of the first entry whose Address is the one asked
\* for, 0 when there is none
RECURSIVE FindFrom(_, _, _)
FindFrom(list, Address, i) ==
    IF i > Len(list) THEN 0
    ELSE IF list[i].Address = Address THEN i
    ELSE FindFrom(list, Address, i + 1)

\* The search that takes the first entry, whatever its Address
FindEntry_Head(list, Address) == IF list = <<>> THEN 0 ELSE 1

FindEntry(list, Address) == FindFrom(list, Address, 1)

\* RemoveEntryList left out: the entry found stays in the list
RemoveEntryList_Skipped(list, i) == list

\* RemoveHeadList for RemoveEntryList: the head goes, whichever entry was found
RemoveEntryList_Head(list, i) == Tail(list)

\* RemoveEntryList on the i-th entry
RemoveEntryList(list, i) == SubSeq(list, 1, i - 1) \o SubSeq(list, i + 1, Len(list))

\* The update without line 513: FreeSize stays as it was
StatsAfterFree_StaleFree(ps, sizeToFree) ==
    LET used == ps.UsedSize - sizeToFree
    IN  [ps EXCEPT !.UsedSize = used,
                   !.FragmentationRatio =
                       IF U64GT(used, 0) THEN Fragmentation(used) ELSE 0]

\* The update of Cleanup for that of Free: everything counts as released
StatsAfterFree_Cleared(ps, sizeToFree) ==
    [ps EXCEPT !.UsedSize = 0, !.FreeSize = ps.TotalSize, !.FragmentationRatio = 0]

\* lines 512-520: the update of the pool status
StatsAfterFree(ps, sizeToFree) ==
    LET used == ps.UsedSize - sizeToFree
    IN  [ps EXCEPT !.UsedSize = used,
                   !.FreeSize = ps.TotalSize - used,
                   !.FragmentationRatio =
                       IF U64GT(used, 0) THEN Fragmentation(used) ELSE 0]

\* IoFreeMdl, ExFreePoolWithTag of the buffer and of the entry (lines 501-509,
\* 546-552).  Freeing a block that is not live is recorded in doubleFree.
ReleaseRegion(id, buffer, who) ==
    /\ doubleFree' = (doubleFree \/ ~(RegionBlocks(id) \subseteq live))
    /\ live' = live \ RegionBlocks(id)
    /\ heap' = heap \ {buffer}
    /\ releasedBy' = [releasedBy EXCEPT ![id] = who]
    /\ UNCHANGED nextId

\* lines 473-475: entry and parameter check
FreePinnedMemory_Entry(t, c) ==
    /\ call' = [call EXCEPT ![t] = c]
    /\ IF c.Address = 0
       THEN Return(t, c, Status(STATUS_INVALID_PARAMETER))
       ELSE pc' = [pc EXCEPT ![t] = "F_lock"] /\ UNCHANGED <<ret, completions>>
    /\ UNCHANGED <<poolVars, g_PinnedMemoryInitialized, trip, telemetryVars, lockVars, backingVars, loc>>

\* A direct call FreePinnedMemory(Address)
CallFree(t) ==
    /\ pc[t] = "idle"
    /\ \E Address \in AddressInputs :
          FreePinnedMemory_Entry(t, [NoCall EXCEPT !.fn = "Free", !.Address = Address])

\* line 477
FreeLock(t) ==
    /\ pc[t] = "F_lock"
    /\ Acquire(g_PinnedMemoryLock, t)
    /\ pc' = [pc EXCEPT ![t] = "F_find"]
    /\ UNCHANGED <<poolVars, g_PinnedMemoryInitialized, trip, telemetryVars, g_StatsLock, backingVars,
                   call, loc, ret, completions>>

\* lines 479-499: the search, the removal of the entry found, the release of the
\* lock, and the return when nothing was found
FreeFind(t) ==
    /\ pc[t] = "F_find"
    /\ Release(g_PinnedMemoryLock, t)
    /\ LET i == FindEntry(g_PinnedMemoryList, call[t].Address)
       IN  IF i = 0
           THEN /\ Return(t, call[t], Status(STATUS_NOT_FOUND))
                /\ UNCHANGED <<g_PinnedMemoryList, loc>>
           ELSE /\ g_PinnedMemoryList' = RemoveEntryList(g_PinnedMemoryList, i)
                /\ loc' = [loc EXCEPT ![t] =
                              [buffer |-> g_PinnedMemoryList[i].Address,
                               id |-> g_PinnedMemoryList[i].id,
                               sizeToFree |-> g_PinnedMemoryList[i].Size]]
                /\ pc' = [pc EXCEPT ![t] = "F_release"]
                /\ UNCHANGED <<ret, completions>>
    /\ UNCHANGED <<g_MemoryPoolStatus, g_PinnedMemoryInitialized, trip, telemetryVars, g_StatsLock,
                   backingVars, call>>

\* lines 501-509
FreeRelease(t) ==
    /\ pc[t] = "F_release"
    /\ ReleaseRegion(loc[t].id, loc[t].buffer, "Free")
    /\ pc' = [pc EXCEPT ![t] = "F_slock"]
    /\ UNCHANGED <<poolVars, g_PinnedMemoryInitialized, trip, telemetryVars, lockVars, call, loc, ret, completions>>

\* line 511
FreeStatsLock(t) ==
    /\ pc[t] = "F_slock"
    /\ Acquire(g_StatsLock, t)
    /\ pc' = [pc EXCEPT ![t] = "F_stats"]
    /\ UNCHANGED <<poolVars, g_PinnedMemoryInitialized, trip, telemetryVars, g_PinnedMemoryLock,
                   backingVars, call, loc, ret, completions>>

\* lines 512-524
FreeStats(t) ==
    /\ pc[t] = "F_stats"
    /\ g_MemoryPoolStatus' = StatsAfterFree(g_MemoryPoolStatus, loc[t].sizeToFree)
    /\ Release(g_StatsLock, t)
    /\ Return(t, call[t], Status(STATUS_SUCCESS))
    /\ UNCHANGED <<g_PinnedMemoryList, g_PinnedMemoryInitialized, trip, telemetryVars, g_PinnedMemoryLock,
                   backingVars, call, loc>>

\* ======================== CleanupPinnedMemory ==========================
\* The reset with FreeSize cleared instead of set to TotalSize
StatsAfterCleanup_FreeCleared(ps) ==
    [ps EXCEPT !.UsedSize = 0, !.FreeSize = 0, !.FragmentationRatio = 0]

\* lines 562-564
StatsAfterCleanup(ps) ==
    [ps EXCEPT !.UsedSize = 0, !.FreeSize = ps.TotalSize, !.FragmentationRatio = 0]

\* lines 534-536: entry; nothing is done when the flag is clear
CallCleanup(t) ==
    /\ pc[t] = "idle"
    /\ call' = [call EXCEPT ![t] = [NoCall EXCEPT !.fn = "Cleanup"]]
    /\ IF ~g_PinnedMemoryInitialized
       THEN Return(t, NoCall, Status(STATUS_SUCCESS))
       ELSE pc' = [pc EXCEPT ![t] = "C_lock"] /\ UNCHANGED <<ret, completions>>
    /\ UNCHANGED <<poolVars, g_PinnedMemoryInitialized, trip, telemetryVars, lockVars, backingVars, loc>>

\* lines 538 and 556
CleanupLock(t) ==
    /\ pc[t] = "C_lock"
    /\ Acquire(g_PinnedMemoryLock, t)
    /\ pc' = [pc EXCEPT ![t] = "C_loop"]
    /\ UNCHANGED <<poolVars, g_PinnedMemoryInitialized, trip, telemetryVars, g_StatsLock, backingVars,
                   call, loc, ret, completions>>

\* lines 540-544 and 559: the loop test with the lock held; RemoveHeadList and
\* the release of the lock, or the release of the lock when the list is empty
CleanupLoop(t) ==
    /\ pc[t] = "C_loop"
    /\ Release(g_PinnedMemoryLock, t)
    /\ IF g_PinnedMemoryList = <<>>
       THEN /\ pc' = [pc EXCEPT ![t] = "C_slock"]
            /\ UNCHANGED <<g_PinnedMemoryList, loc>>
       ELSE /\ g_PinnedMemoryList' = Tail(g_PinnedMemoryList)
            /\ loc' = [loc EXCEPT ![t] =
                          [buffer |-> Head(g_PinnedMemoryList).Address,
                           id |-> Head(g_PinnedMemoryList).id,
                           sizeToFree |-> 0]]
            /\ pc' = [pc EXCEPT ![t] = "C_release"]
    /\ UNCHANGED <<g_MemoryPoolStatus, g_PinnedMemoryInitialized, trip, telemetryVars, g_StatsLock,
                   backingVars, call, ret, completions>>

\* lines 546-554
CleanupRelease(t) ==
    /\ pc[t] = "C_release"
    /\ ReleaseRegion(loc[t].id, loc[t].buffer, "Cleanup")
    /\ pc' = [pc EXCEPT ![t] = "C_lock"]
    /\ UNCHANGED <<poolVars, g_PinnedMemoryInitialized, trip, telemetryVars, lockVars, call, loc, ret, completions>>

\* line 561
CleanupStatsLock(t) ==
    /\ pc[t] = "C_slock"
    /\ Acquire(g_StatsLock, t)
    /\ pc' = [pc EXCEPT ![t] = "C_stats"]
    /\ UNCHANGED <<poolVars, g_PinnedMemoryInitialized, trip, telemetryVars, g_PinnedMemoryLock,
                   backingVars, call, loc, ret, completions>>

\* lines 562-565
CleanupStats(t) ==
    /\ pc[t] = "C_stats"
    /\ g_MemoryPoolStatus' = StatsAfterCleanup(g_MemoryPoolStatus)
    /\ Release(g_StatsLock, t)
    /\ pc' = [pc EXCEPT ![t] = "C_flag"]
    /\ UNCHANGED <<g_PinnedMemoryList, g_PinnedMemoryInitialized, trip, telemetryVars, g_PinnedMemoryLock,
                   backingVars, call, loc, ret, completions>>

\* lines 567-570
CleanupFlag(t) ==
    /\ pc[t] = "C_flag"
    /\ g_PinnedMemoryInitialized' = FALSE
    /\ Return(t, call[t], Status(STATUS_SUCCESS))
    /\ UNCHANGED <<poolVars, lockVars, backingVars, call, loc, trip, telemetryVars>>

\* ======================== GetMemoryPoolStatus ==========================
\* The copy alone, without line 338: BlockCount as it is stored
Snapshot_StoredBlockCount(ps) == ps

\* lines 335-338: the copy of the pool status, with BlockCount filled in
Snapshot(ps) == [ps EXCEPT !.BlockCount = ps.TotalSize \div BLOCK_SIZE]

\* lines 328-330: entry and parameter check
GetMemoryPoolStatus_Entry(t, c) ==
    /\ call' = [call EXCEPT ![t] = c]
    /\ IF ~c.hasOut \/ c.outLen < SIZEOF_MEMORY_POOL_STATUS
       THEN Return(t, c, Status(STATUS_INVALID_PARAMETER))
       ELSE pc' = [pc EXCEPT ![t] = "G_slock"] /\ UNCHANGED <<ret, completions>>
    /\ UNCHANGED <<poolVars, g_PinnedMemoryInitialized, trip, telemetryVars, lockVars, backingVars, loc>>

\* A direct call GetMemoryPoolStatus(OutputBuffer, OutputBufferLength)
CallStats(t, Flags, Lengths) ==
    /\ pc[t] = "idle"
    /\ \E hasBuffer \in Flags, len \in Lengths :
          GetMemoryPoolStatus_Entry(t,
              [NoCall EXCEPT !.fn = "Stats", !.hasOut = hasBuffer, !.outLen = len])

\* line 334
StatsLock(t) ==
    /\ pc[t] = "G_slock"
    /\ Acquire(g_StatsLock, t)
    /\ pc' = [pc EXCEPT ![t] = "G_copy"]
    /\ UNCHANGED <<poolVars, g_PinnedMemoryInitialized, trip, telemetryVars, g_PinnedMemoryLock,
                   backingVars, call, loc, ret, completions>>

\* lines 335-340
StatsCopy(t) ==
    /\ pc[t] = "G_copy"
    /\ Release(g_StatsLock, t)
    /\ Return(t, call[t], [Status(STATUS_SUCCESS) EXCEPT
                                !.out = Snapshot(g_MemoryPoolStatus),
                                !.written = SIZEOF_MEMORY_POOL_STATUS])
    /\ UNCHANGED <<poolVars, g_PinnedMemoryInitialized, trip, telemetryVars, g_PinnedMemoryLock,
                   backingVars, call, loc>>

\* ========================= HandleAllocPinned ===========================
\* ioctl_handlers.c lines 219-239: the checks HandleAllocPinned makes before it
\* calls AllocatePinnedMemory
AllocPinnedRequestInvalid(c) ==
    \/ c.inLen < SIZEOF_UINT64 \/ c.outLen < SIZEOF_UINT64
    \/ ~c.hasOut
    \/ c.Size = 0

\* ai_driver_ioctl.c lines 87-91 and ioctl_handlers.c lines 197-242: a request
\* with the code IOCTL_AI_ALLOC_PINNED reaches HandleAllocPinned, which checks
\* the request and calls AllocatePinnedMemory(requestedSize, &allocatedAddress)
HandleAllocPinned(t, c) ==
    IF AllocPinnedRequestInvalid(c)
    THEN /\ call' = [call EXCEPT ![t] = c]
         /\ Return(t, c, Status(STATUS_INVALID_PARAMETER))
         /\ UNCHANGED <<poolVars, g_PinnedMemoryInitialized, trip, telemetryVars, lockVars, backingVars, loc>>
    ELSE AllocatePinnedMemory_Entry(t, [c EXCEPT !.hasOut = TRUE])

\* A DeviceIoControl request with the code IOCTL_AI_ALLOC_PINNED: the lengths of
\* the two buffers, whether the system buffer is there, and the size in it
CallIoctlAllocPinned(t) ==
    /\ pc[t] = "idle"
    /\ \E inLen \in BufferLengths, outLen \in BufferLengths,
          hasBuffer \in BOOLEAN, Size \in SizeInputs :
          HandleAllocPinned(t,
              [NoCall EXCEPT !.fn = "Allocate", !.via = "ioctl",
                             !.code = IOCTL_AI_ALLOC_PINNED, !.inLen = inLen,
                             !.outLen = outLen, !.hasOut = hasBuffer, !.Size = Size])

\* ========================== HandleFreePinned ===========================
\* ioctl_handlers.c lines 286-305: the checks HandleFreePinned makes before it
\* calls FreePinnedMemory
FreePinnedRequestInvalid(c) ==
    \/ c.inLen < SIZEOF_UINT64
    \/ ~c.hasOut
    \/ c.Address = 0

\* ai_driver_ioctl.c lines 93-97 and ioctl_handlers.c lines 269-308: a request
\* with the code IOCTL_AI_FREE_PINNED reaches HandleFreePinned, which checks the
\* request and calls FreePinnedMemory(address)
HandleFreePinned(t, c) ==
    IF FreePinnedRequestInvalid(c)
    THEN /\ call' = [call EXCEPT ![t] = c]
         /\ Return(t, c, Status(STATUS_INVALID_PARAMETER))
         /\ UNCHANGED <<poolVars, g_PinnedMemoryInitialized, trip, telemetryVars, lockVars, backingVars, loc>>
    ELSE FreePinnedMemory_Entry(t, c)

\* A DeviceIoControl request with the code IOCTL_AI_FREE_PINNED: the length of
\* the input buffer, whether the system buffer is there, and the address in it
CallIoctlFreePinned(t) ==
    /\ pc[t] = "idle"
    /\ \E inLen \in BufferLengths, hasBuffer \in BOOLEAN, Address \in AddressInputs :
          HandleFreePinned(t,
              [NoCall EXCEPT !.fn = "Free", !.via = "ioctl",
                             !.code = IOCTL_AI_FREE_PINNED, !.inLen = inLen,
                             !.hasOut = hasBuffer, !.Address = Address])

\* ============================ GetGpuStatus =============================
\* The number of AI processes CountAiProcesses finds (gpu_integration.c lines
\* 167-247): one value for each branch of EstimateGpuUtilization
ProcessCounts == {0, 1, 2, 3}

\* gpu_integration.c lines 254-271, in percent
EstimateGpuUtilization(AiProcessCount) ==
    IF AiProcessCount = 0 THEN 5
    ELSE IF AiProcessCount = 1 THEN 35
    ELSE IF AiProcessCount = 2 THEN 60
    ELSE 85

\* lines 297-300: the status GetGpuStatus builds, memory in MiB
GpuStatusFor(aiProcesses) ==
    [Utilization |-> EstimateGpuUtilization(aiProcesses),
     MemoryUsed  |-> (GPU_MEMORY_DEFAULT_MIB * 40) \div 100,
     MemoryTotal |-> GPU_MEMORY_DEFAULT_MIB,
     Temperature |-> 0]

\* lines 286-288: the entry check, against this file's GPU_STATUS
GpuBufferRejected(c) == ~c.hasOut \/ c.outLen < SIZEOF_GPU_STATUS

\* lines 277-300: entry, parameter check, and the status built in the caller's
\* buffer
GetGpuStatus_Entry(t, c) ==
    /\ call' = [call EXCEPT ![t] = c]
    /\ IF GpuBufferRejected(c)
       THEN Return(t, c, Status(STATUS_INVALID_PARAMETER))
       ELSE pc' = [pc EXCEPT ![t] = "U_slock"] /\ UNCHANGED <<ret, completions>>
    /\ UNCHANGED <<poolVars, g_PinnedMemoryInitialized, trip, telemetryVars, lockVars,
                   backingVars, loc>>

\* line 303
GpuLock(t) ==
    /\ pc[t] = "U_slock"
    /\ Acquire(g_StatsLock, t)
    /\ pc' = [pc EXCEPT ![t] = "U_copy"]
    /\ UNCHANGED <<poolVars, g_PinnedMemoryInitialized, trip, telemetryVars,
                   g_PinnedMemoryLock, backingVars, call, loc, ret, completions>>

\* lines 304-313: the status is cached; RtlZeroMemory at line 291 and the stores
\* at lines 297-300 have written sizeof(GPU_STATUS) bytes of the caller's buffer
GpuCopy(t) ==
    /\ pc[t] = "U_copy"
    /\ g_GpuStatus' = GpuStatusFor(call[t].aiProcesses)
    /\ Release(g_StatsLock, t)
    /\ Return(t, call[t], [Status(STATUS_SUCCESS) EXCEPT !.written = SIZEOF_GPU_STATUS])
    /\ UNCHANGED <<poolVars, g_PinnedMemoryInitialized, trip, g_SchedulerStats,
                   g_PinnedMemoryLock, backingVars, call, loc>>

\* =========================== GetSchedulerStats =========================
\* lines 367-369: the statistics, the latency (2.5 ms) in tenths of a millisecond
SchedulerStatsFor(stats, aiProcesses) ==
    [stats EXCEPT !.AiProcesses = aiProcesses,
                  !.ScheduledTasks = aiProcesses * 5,
                  !.AverageLatencyMs = 25]

\* lines 347-363: entry and parameter check
GetSchedulerStats_Entry(t, c) ==
    /\ call' = [call EXCEPT ![t] = c]
    /\ IF ~c.hasOut \/ c.outLen < SIZEOF_SCHEDULER_STATS
       THEN Return(t, c, Status(STATUS_INVALID_PARAMETER))
       ELSE pc' = [pc EXCEPT ![t] = "S_slock"] /\ UNCHANGED <<ret, completions>>
    /\ UNCHANGED <<poolVars, g_PinnedMemoryInitialized, trip, telemetryVars, lockVars,
                   backingVars, loc>>

\* line 366
SchedLock(t) ==
    /\ pc[t] = "S_slock"
    /\ Acquire(g_StatsLock, t)
    /\ pc' = [pc EXCEPT ![t] = "S_copy"]
    /\ UNCHANGED <<poolVars, g_PinnedMemoryInitialized, trip, telemetryVars,
                   g_PinnedMemoryLock, backingVars, call, loc, ret, completions>>

\* lines 367-373
SchedCopy(t) ==
    /\ pc[t] = "S_copy"
    /\ g_SchedulerStats' = SchedulerStatsFor(g_SchedulerStats, call[t].aiProcesses)
    /\ Release(g_StatsLock, t)
    /\ Return(t, call[t], [Status(STATUS_SUCCESS) EXCEPT
                                !.written = SIZEOF_SCHEDULER_STATS])
    /\ UNCHANGED <<poolVars, g_PinnedMemoryInitialized, trip, g_GpuStatus,
                   g_PinnedMemoryLock, backingVars, call, loc>>

\* ======================= the three status handlers =====================
\* A handler or the dispatcher ends the request c of thread t with the status s
\* before any function of gpu_integration.c is called
Reject(t, c, s) ==
    /\ call' = [call EXCEPT ![t] = c]
    /\ Return(t, c, Status(s))
    /\ UNCHANGED <<poolVars, g_PinnedMemoryInitialized, trip, telemetryVars, lockVars,
                   backingVars, loc>>

\* The two checks in the other order: the buffer first, its length second
StatusRequestCheck_NullFirst(c, size) ==
    IF ~c.hasOut THEN STATUS_INVALID_PARAMETER
    ELSE IF c.outLen < size THEN STATUS_BUFFER_TOO_SMALL
    ELSE STATUS_SUCCESS

\* The length check with the status HandleAllocPinned gives a short buffer
StatusRequestCheck_ShortInvalid(c, size) ==
    IF c.outLen < size \/ ~c.hasOut THEN STATUS_INVALID_PARAMETER
    ELSE STATUS_SUCCESS

\* ioctl_handlers.c lines 68-79, 116-127, 164-175: the checks a status handler
\* makes before it calls its provider, the length first, the buffer second
StatusRequestCheck(c, size) ==
    IF c.outLen < size THEN STATUS_BUFFER_TOO_SMALL
    ELSE IF ~c.hasOut THEN STATUS_INVALID_PARAMETER
    ELSE STATUS_SUCCESS

\* ioctl_handlers.c lines 53-82
HandleGetGpuStatus(t, c) ==
    IF StatusRequestCheck(c, SIZEOF_PACKED_GPU_STATUS) # STATUS_SUCCESS
    THEN Reject(t, c, StatusRequestCheck(c, SIZEOF_PACKED_GPU_STATUS))
    ELSE GetGpuStatus_Entry(t, c)

\* ioctl_handlers.c lines 101-130
HandleGetMemoryPool(t, c) ==
    IF StatusRequestCheck(c, SIZEOF_PACKED_MEMORY_POOL_STATUS) # STATUS_SUCCESS
    THEN Reject(t, c, StatusRequestCheck(c, SIZEOF_PACKED_MEMORY_POOL_STATUS))
    ELSE GetMemoryPoolStatus_Entry(t, c)

\* ioctl_handlers.c lines 149-178
HandleGetSchedulerStats(t, c) ==
    IF StatusRequestCheck(c, SIZEOF_PACKED_SCHEDULER_STATS) # STATUS_SUCCESS
    THEN Reject(t, c, StatusRequestCheck(c, SIZEOF_PACKED_SCHEDULER_STATS))
    ELSE GetSchedulerStats_Entry(t, c)

\* ====================== AiDriverEvtIoDeviceControl =====================
\* The codes a request can carry: the eight of ai_driver_ioctl.c lines 14-21 and
\* one that is none of them
UnknownCode == IOCTL_AI_FREE_PINNED + 1
IoControlCodes == IOCTL_AI_GET_STATS .. UnknownCode
LegacyCodes == {IOCTL_AI_GET_STATS, IOCTL_AI_SET_GPU_UTIL, IOCTL_AI_BOOST_PRIORITY}
HandledCodes == {IOCTL_AI_GET_GPU_STATUS, IOCTL_AI_GET_MEMORY_POOL,
                 IOCTL_AI_GET_SCHEDULER_STATS, IOCTL_AI_ALLOC_PINNED,
                 IOCTL_AI_FREE_PINNED}
StatusCodes == {IOCTL_AI_GET_GPU_STATUS, IOCTL_AI_GET_MEMORY_POOL,
                IOCTL_AI_GET_SCHEDULER_STATS}

\* A legacy code answered like a code the driver does not know
LegacyStatus_InvalidRequest == STATUS_INVALID_DEVICE_REQUEST
\* ai_driver_ioctl.c lines 99-118
LegacyStatus == STATUS_NOT_IMPLEMENTED

\* An unknown code answered like a legacy one
DefaultStatus_NotImplemented == STATUS_NOT_IMPLEMENTED
\* ai_driver_ioctl.c lines 120-125
DefaultStatus == STATUS_INVALID_DEVICE_REQUEST

\* The lengths of the buffers of the requests
OutputLengths == {0, SIZEOF_UINT64, SIZEOF_PACKED_SCHEDULER_STATS,
                  SIZEOF_PACKED_GPU_STATUS, SIZEOF_GPU_STATUS}
InputLengths == {0, SIZEOF_UINT64}
\* The UINT64 at the start of the system buffer: a size for AllocatePinned, an
\* address for FreePinned
Payloads(code) ==
    IF code = IOCTL_AI_ALLOC_PINNED THEN {0, 100, 200 * MiB}
    ELSE IF code = IOCTL_AI_FREE_PINNED THEN AddressInputs
    ELSE {0}
\* What CountAiProcesses finds while the request is served
Counts(code) ==
    IF code \in {IOCTL_AI_GET_GPU_STATUS, IOCTL_AI_GET_SCHEDULER_STATS}
    THEN ProcessCounts ELSE {0}

\* The function of gpu_integration.c a code stands for
FnOf(code) ==
    IF code = IOCTL_AI_ALLOC_PINNED THEN "Allocate"
    ELSE IF code = IOCTL_AI_FREE_PINNED THEN "Free"
    ELSE IF code = IOCTL_AI_GET_MEMORY_POOL THEN "Stats"
    ELSE IF code = IOCTL_AI_GET_GPU_STATUS THEN "GpuStatus"
    ELSE IF code = IOCTL_AI_GET_SCHEDULER_STATS THEN "SchedulerStats"
    ELSE "none"

\* The request as the handlers read it
Request(code, inLen, outLen, hasBuffer, value, aiProcesses) ==
    [NoCall EXCEPT !.fn = FnOf(code), !.via = "ioctl", !.code = code,
                   !.inLen = inLen, !.outLen = outLen, !.hasOut = hasBuffer,
                   !.Size = IF code = IOCTL_AI_ALLOC_PINNED THEN value ELSE 0,
                   !.Address = IF code = IOCTL_AI_FREE_PINNED THEN value ELSE 0,
                   !.aiProcesses = aiProcesses]

\* ai_driver_ioctl.c lines 51-125: the queue's device and the request's IRP are
\* looked up (lines 51-63), then the switch on the code
AiDriverEvtIoDeviceControl(t, c) ==
    IF ~c.hasDevice THEN Reject(t, c, STATUS_INVALID_DEVICE_REQUEST)
    ELSE IF ~c.hasIrp THEN Reject(t, c, STATUS_INVALID_PARAMETER)
    ELSE \/ c.code = IOCTL_AI_GET_GPU_STATUS /\ HandleGetGpuStatus(t, c)
         \/ c.code = IOCTL_AI_GET_MEMORY_POOL /\ HandleGetMemoryPool(t, c)
         \/ c.code = IOCTL_AI_GET_SCHEDULER_STATS /\ HandleGetSchedulerStats(t, c)
         \/ c.code = IOCTL_AI_ALLOC_PINNED /\ HandleAllocPinned(t, c)
         \/ c.code = IOCTL_AI_FREE_PINNED /\ HandleFreePinned(t, c)
         \/ c.code \in LegacyCodes /\ Reject(t, c, LegacyStatus)
         \/ c.code \notin HandledCodes \cup LegacyCodes /\ Reject(t, c, DefaultStatus)

\* A DeviceIoControl request the sequential queue (ai_driver.c line 179) hands
\* to the dispatcher; the framework gives the callback the queue of a device and
\* a request with its IRP
DeviceIoControl(t) ==
    /\ pc[t] = "idle"
    /\ \E code \in IoControlCodes, inLen \in InputLengths, outLen \in OutputLengths,
          hasBuffer \in BOOLEAN :
          \E value \in Payloads(code), aiProcesses \in Counts(code) :
             AiDriverEvtIoDeviceControl(t,
                 Request(code, inLen, outLen, hasBuffer, value, aiProcesses))

\* ============================ specifications ===========================
\* One step of a call that is under way
Step(t) ==
    \/ AllocBacking(t) \/ AllocLock(t) \/ AllocInsert(t)
    \/ AllocStatsLock(t) \/ AllocStats(t) \/ AllocReturn(t)
    \/ FreeLock(t) \/ FreeFind(t) \/ FreeRelease(t) \/ FreeStatsLock(t) \/ FreeStats(t)
    \/ CleanupLock(t) \/ CleanupLoop(t) \/ CleanupRelease(t)
    \/ CleanupStatsLock(t) \/ CleanupStats(t) \/ CleanupFlag(t)
    \/ StatsLock(t) \/ StatsCopy(t)
    \/ Finish(t)

AllIdle == \A u \in Threads : pc[u] = "idle"

\* Concurrent callers of the pool's functions (Free is called on every handle
\* value, GetMemoryPoolStatus with a buffer that takes the status)
Next ==
    \E t \in Threads :
        \/ CallAllocate(t, ConcurrentSizes, {TRUE})
        \/ CallFree(t)
        \/ CallStats(t, {TRUE}, {SIZEOF_MEMORY_POOL_STATUS})
        \/ CallCleanup(t)
        \/ Step(t)

Spec == Init /\ [][Next]_vars

\* Calls run one at a time: a call starts when no other call is under way.
\* Direct calls with every parameter, and requests through the dispatcher.
NextSeq ==
    \E t \in Threads :
        \/ AllIdle /\ CallAllocate(t, SizeInputs, BOOLEAN)
        \/ AllIdle /\ CallIoctlAllocPinned(t)
        \/ AllIdle /\ CallFree(t)
        \/ AllIdle /\ CallIoctlFreePinned(t)
        \/ AllIdle /\ CallStats(t, BOOLEAN, LengthInputs)
        \/ AllIdle /\ CallCleanup(t)
        \/ Step(t)

SeqSpec == Init /\ [][NextSeq]_vars

\* ---- scenarios
\* The state every scenario starts from, but for the pool and the threads
InitRest ==
    /\ g_GpuStatus = NoGpuStatus
    /\ g_SchedulerStats = NoSchedulerStats
    /\ g_PinnedMemoryInitialized = TRUE
    /\ g_PinnedMemoryLock = 0
    /\ g_StatsLock = 0
    /\ releasedBy = [i \in Ids |-> "none"]
    /\ doubleFree = FALSE
    /\ call = [t \in Threads |-> NoCall]
    /\ loc = [t \in Threads |-> NoLoc]
    /\ ret = [t \in Threads |-> NoRet]
    /\ completions = [t \in Threads |-> 0]
    /\ trip = NoTrip

\* The pool after the successful calls Allocate(sizes[1]), Allocate(sizes[2]), ...
\* on the fresh pool, the k-th buffer at address k
PoolHolding(sizes) ==
    /\ g_PinnedMemoryList = [k \in 1 .. Len(sizes) |-> Entry(k, sizes[k], k)]
    /\ g_MemoryPoolStatus =
          [InitMemoryPoolStatus EXCEPT
              !.UsedSize = SumSizes(g_PinnedMemoryList),
              !.FreeSize = AI_MEMORY_POOL_SIZE - SumSizes(g_PinnedMemoryList),
              !.FragmentationRatio = Fragmentation(SumSizes(g_PinnedMemoryList))]
    /\ live = UNION {RegionBlocks(k) : k \in 1 .. Len(sizes)}
    /\ heap = 1 .. Len(sizes)
    /\ nextId = Len(sizes) + 1

\* Free calls racing: the pool holds one or two records, and every thread calls
\* FreePinnedMemory once, on a handle of its choice.
InitFreeRace ==
    /\ \E sizes \in {<<100>>, <<100 * MiB>>, <<100, 100 * MiB>>, <<100 * MiB, 100>>} :
          PoolHolding(sizes)
    /\ pc = [t \in Threads |-> "idle"]
    /\ InitRest

NextFreeRace ==
    \E t \in Threads :
        \/ CallFree(t)
        \/ FreeLock(t) \/ FreeFind(t) \/ FreeRelease(t) \/ FreeStatsLock(t)
        \/ FreeStats(t)

FreeRaceSpec == InitFreeRace /\ [][NextFreeRace]_vars

\* Allocate calls racing: on the fresh pool each of the first n threads calls
\* AllocatePinnedMemory once, for the n-th part of the pool, and the system pool
\* does not fail.  The threads that take no part stay "out".
Parties == {t \in Threads : pc[t] # "out"}
Share == AI_MEMORY_POOL_SIZE \div Cardinality(Parties)

InitAllocRace ==
    /\ PoolHolding(<<>>)
    /\ \E n \in Threads : pc = [t \in Threads |-> IF t <= n THEN "idle" ELSE "out"]
    /\ InitRest

NextAllocRace ==
    \E t \in Threads :
        \/ CallAllocate(t, {Share}, {TRUE})
        \/ AllocBacking(t) /\ pc'[t] = "A_lock"
        \/ AllocLock(t) \/ AllocInsert(t) \/ AllocStatsLock(t) \/ AllocStats(t)
        \/ AllocReturn(t)

AllocRaceSpec == InitAllocRace /\ [][NextAllocRace]_vars

\* The round trip: with calls run one at a time, from a pool that holds no
\* record or one, a caller notes the registry and the pool status, calls
\* AllocatePinnedMemory(a), then, when that succeeded, AllocatePinnedMemory(b)
\* for a size b that no longer fits, then FreePinnedMemory on the handle the
\* first call returned.
InitRoundTrip ==
    /\ \E sizes \in {<<>>, <<100>>, <<100 * MiB>>, <<200 * MiB>>} : PoolHolding(sizes)
    /\ pc = [t \in Threads |-> "idle"]
    /\ InitRest

TripBegin ==
    /\ trip.stage = "none"
    /\ trip' = [NoTrip EXCEPT !.stage = "first", !.list = g_PinnedMemoryList,
                              !.status = g_MemoryPoolStatus]
    /\ UNCHANGED <<poolVars, g_PinnedMemoryInitialized, lockVars, backingVars,
                   telemetryVars, pc, call, loc, ret, completions>>

TripAllocateFirst(t) ==
    /\ trip.stage = "first" /\ AllIdle
    /\ CallAllocate(t, SizeInputs, {TRUE})

TripNoteFirst(t) ==
    /\ trip.stage = "first"
    /\ Forget(t)
    /\ trip' = IF ret[t].status = STATUS_SUCCESS
               THEN [trip EXCEPT !.stage = "second", !.a = call[t].Size,
                                 !.handle = ret[t].Address]
               ELSE [trip EXCEPT !.stage = "over"]

TripAllocateSecond(t) ==
    /\ trip.stage = "second" /\ AllIdle
    /\ CallAllocate(t,
          {b \in SizeInputs :
              g_MemoryPoolStatus.UsedSize + b > AI_MEMORY_POOL_SIZE}, {TRUE})

TripNoteSecond(t) ==
    /\ trip.stage = "second"
    /\ Forget(t)
    /\ trip' = [trip EXCEPT !.stage = "free", !.b = call[t].Size]

TripFree(t) ==
    /\ trip.stage = "free" /\ AllIdle
    /\ FreePinnedMemory_Entry(t,
          [NoCall EXCEPT !.fn = "Free", !.Address = trip.handle])

NextRoundTrip ==
    \/ TripBegin
    \/ \E t \in Threads :
          \/ TripAllocateFirst(t) \/ TripNoteFirst(t)
          \/ TripAllocateSecond(t) \/ TripNoteSecond(t)
          \/ TripFree(t)
          \/ AllocBacking(t) \/ AllocLock(t) \/ AllocInsert(t)
          \/ AllocStatsLock(t) \/ AllocStats(t) \/ AllocReturn(t)
          \/ FreeLock(t) \/ FreeFind(t) \/ FreeRelease(t) \/ FreeStatsLock(t)
          \/ FreeStats(t)

RoundTripSpec == InitRoundTrip /\ [][NextRoundTrip]_vars

\* Teardown: the callers of Spec, and no call starts once a Cleanup has returned
\* (the flag is the last thing Cleanup writes).
NextTeardown ==
    \E t \in Threads :
        \/ g_PinnedMemoryInitialized /\ CallAllocate(t, ConcurrentSizes, {TRUE})
        \/ g_PinnedMemoryInitialized /\ CallFree(t)
        \/ g_PinnedMemoryInitialized /\ CallStats(t, {TRUE}, {SIZEOF_MEMORY_POOL_STATUS})
        \/ g_PinnedMemoryInitialized /\ CallCleanup(t)
        \/ Step(t)

TeardownSpec == Init /\ [][NextTeardown]_vars

\* Requests through the dispatcher: the queue is sequential (ai_driver.c line
\* 179), so a request is handed over when the one before it has been completed.
NextDispatch ==
    \E t \in Threads :
        \/ AllIdle /\ DeviceIoControl(t)
        \/ AllocBacking(t) \/ AllocLock(t) \/ AllocInsert(t)
        \/ AllocStatsLock(t) \/ AllocStats(t) \/ AllocReturn(t)
        \/ FreeLock(t) \/ FreeFind(t) \/ FreeRelease(t) \/ FreeStatsLock(t)
        \/ FreeStats(t)
        \/ StatsLock(t) \/ StatsCopy(t)
        \/ GpuLock(t) \/ GpuCopy(t)
        \/ SchedLock(t) \/ SchedCopy(t)
        \/ Finish(t)

DispatchSpec == Init /\ [][NextDispatch]_vars

\* Finitely many callers under a fair scheduler: the pool holds no record, one
\* or two, every thread makes one call of its choice (Allocate, Free, Cleanup),
\* and a thread that can take its next step sooner or later is given the
\* processor.  The call to the system pool returns, with or without a buffer.
InitLive ==
    /\ \E sizes \in {<<>>, <<100>>, <<100, 100 * MiB>>} : PoolHolding(sizes)
    /\ pc = [t \in Threads |-> "idle"]
    /\ InitRest

LiveStep(t) ==
    \/ AllocBacking(t) \/ AllocLock(t) \/ AllocInsert(t)
    \/ AllocStatsLock(t) \/ AllocStats(t) \/ AllocReturn(t)
    \/ FreeLock(t) \/ FreeFind(t) \/ FreeRelease(t) \/ FreeStatsLock(t) \/ FreeStats(t)
    \/ CleanupLock(t) \/ CleanupLoop(t) \/ CleanupRelease(t)
    \/ CleanupStatsLock(t) \/ CleanupStats(t) \/ CleanupFlag(t)

NextLive ==
    \E t \in Threads :
        \/ CallAllocate(t, {100, 200 * MiB}, {TRUE})
        \/ CallFree(t)
        \/ CallCleanup(t)
        \/ LiveStep(t)

LiveSpec == InitLive /\ [][NextLive]_vars /\ \A t \in Threads : WF_vars(LiveStep(t))

\* Concurrent callers of AllocatePinnedMemory and FreePinnedMemory, and no
\* CleanupPinnedMemory: the driver is not being unloaded.
NextNoShutdown ==
    \E t \in Threads :
        \/ CallAllocate(t, ConcurrentSizes, {TRUE})
        \/ CallFree(t)
        \/ AllocBacking(t) \/ AllocLock(t) \/ AllocInsert(t)
        \/ AllocStatsLock(t) \/ AllocStats(t) \/ AllocReturn(t)
        \/ FreeLock(t) \/ FreeFind(t) \/ FreeRelease(t) \/ FreeStatsLock(t)
        \/ FreeStats(t)
        \/ Finish(t)

NoShutdownSpec == Init /\ [][NextNoShutdown]_vars

\* Direct calls GetGpuStatus(OutputBuffer, OutputBufferLength) and
\* GetSchedulerStats(OutputBuffer, OutputBufferLength) with a buffer that takes
\* the structure, while CountAiProcesses finds one of the numbers in Found
CallGpuStatus(t, Found) ==
    /\ pc[t] = "idle"
    /\ \E aiProcesses \in Found :
          GetGpuStatus_Entry(t,
              [NoCall EXCEPT !.fn = "GpuStatus", !.hasOut = TRUE,
                             !.outLen = SIZEOF_GPU_STATUS,
                             !.aiProcesses = aiProcesses])

CallSchedulerStats(t, Found) ==
    /\ pc[t] = "idle"
    /\ \E aiProcesses \in Found :
          GetSchedulerStats_Entry(t,
              [NoCall EXCEPT !.fn = "SchedulerStats", !.hasOut = TRUE,
                             !.outLen = SIZEOF_SCHEDULER_STATS,
                             !.aiProcesses = aiProcesses])

\* One step of a call that is under way, of any of the six functions that take
\* a spinlock
LockStep(t) ==
    \/ AllocBacking(t) \/ AllocLock(t) \/ AllocInsert(t)
    \/ AllocStatsLock(t) \/ AllocStats(t) \/ AllocReturn(t)
    \/ FreeLock(t) \/ FreeFind(t) \/ FreeRelease(t) \/ FreeStatsLock(t) \/ FreeStats(t)
    \/ CleanupLock(t) \/ CleanupLoop(t) \/ CleanupRelease(t)
    \/ CleanupStatsLock(t) \/ CleanupStats(t) \/ CleanupFlag(t)
    \/ StatsLock(t) \/ StatsCopy(t)
    \/ GpuLock(t) \/ GpuCopy(t)
    \/ SchedLock(t) \/ SchedCopy(t)

\* Concurrent callers of Allocate, Free, Cleanup and the three status functions
NextLocks ==
    \E t \in Threads :
        \/ CallAllocate(t, {100}, {TRUE})
        \/ CallFree(t)
        \/ CallCleanup(t)
        \/ CallStats(t, {TRUE}, {SIZEOF_MEMORY_POOL_STATUS})
        \/ CallGpuStatus(t, {1})
        \/ CallSchedulerStats(t, {1})
        \/ LockStep(t)
        \/ Finish(t)

LocksSpec == Init /\ [][NextLocks]_vars

\* The device-control callback on each of its paths: the lookup of the device
\* or of the IRP may come back empty, the code is any of the nine, the buffer
\* is there or not and long enough or empty.  The requests are served one at a
\* time, and a request under way is given the processor sooner or later.
CallbackInvoked(t) ==
    /\ pc[t] = "idle"
    /\ \E code \in IoControlCodes, hasDevice \in BOOLEAN, hasIrp \in BOOLEAN,
          hasBuffer \in BOOLEAN, len \in {0, SIZEOF_GPU_STATUS} :
          \E value \in Payloads(code) :
             AiDriverEvtIoDeviceControl(t,
                 [Request(code, len, len, hasBuffer, value, 1) EXCEPT
                     !.hasDevice = hasDevice, !.hasIrp = hasIrp])

RequestStep(t) ==
    \/ AllocBacking(t) \/ AllocLock(t) \/ AllocInsert(t)
    \/ AllocStatsLock(t) \/ AllocStats(t) \/ AllocReturn(t)
    \/ FreeLock(t) \/ FreeFind(t) \/ FreeRelease(t) \/ FreeStatsLock(t) \/ FreeStats(t)
    \/ StatsLock(t) \/ StatsCopy(t)
    \/ GpuLock(t) \/ GpuCopy(t)
    \/ SchedLock(t) \/ SchedCopy(t)

NextCallback ==
    \E t \in Threads :
        \/ AllIdle /\ CallbackInvoked(t)
        \/ RequestStep(t)
        \/ Finish(t)

CallbackSpec ==
    Init /\ [][NextCallback]_vars /\ \A t \in Threads : WF_vars(RequestStep(t))

\* ============================== claims =================================
Used == g_MemoryPoolStatus.UsedSize
Quiescent == \A t \in Threads : pc[t] \in {"idle", "done"}

\* C1: in every reachable state used <= capacity, and two concurrent Allocate
\* calls whose sizes together exceed the remaining capacity never both succeed:
\* the records the registry holds never add up to more than the capacity.
C1_CapacityNeverExceeded ==
    /\ SumSizes(g_PinnedMemoryList) <= AI_MEMORY_POOL_SIZE
    /\ ~U64GT(Used, AI_MEMORY_POOL_SIZE)

\* C2: at every quiescent point (no call in progress) the sizes of the records
\* in the registry add up to used.
C2_QuiescentSumIsUsed ==
    Quiescent => SumSizes(g_PinnedMemoryList) = Used

\* The records a Free or a Cleanup has taken out of the list and not yet released
Holding(t) == pc[t] \in {"F_release", "C_release"}

\* C3: the backing region of every record is released exactly once: no block is
\* freed twice; a record in the registry has not been released; a record taken
\* out of the registry by a Free or by Cleanup is held by that call alone, is
\* live until that call releases it, and is released when a Free returns success.
C3_ReleasedExactlyOnce ==
    /\ ~doubleFree
    /\ \A i \in 1 .. Len(g_PinnedMemoryList) :
          LET e == g_PinnedMemoryList[i]
          IN  /\ RegionBlocks(e.id) \subseteq live
              /\ releasedBy[e.id] = "none"
              /\ \A t \in Threads : Holding(t) => loc[t].id # e.id
    /\ \A t \in Threads :
          Holding(t) =>
              /\ RegionBlocks(loc[t].id) \subseteq live
              /\ releasedBy[loc[t].id] = "none"
              /\ \A u \in Threads \ {t} : Holding(u) => loc[u].id # loc[t].id
    /\ \A t \in Threads :
          (pc[t] = "done" /\ call[t].fn = "Free" /\ ret[t].status = STATUS_SUCCESS) =>
              /\ releasedBy[loc[t].id] = "Free"
              /\ RegionBlocks(loc[t].id) \cap live = {}

\* C3 witness: a Free and a Cleanup run side by side, each holding a record it
\* took out of the registry and is about to release.
C3_Witness ==
    \E t, u \in Threads : pc[t] = "F_release" /\ pc[u] = "C_release"

AllDone == \A t \in Threads : pc[t] \in {"done", "out"}
FreeCallers(A) == {t \in Threads : call[t].fn = "Free" /\ call[t].Address = A}
Succeeded(T) == {t \in T : ret[t].status = STATUS_SUCCESS}

\* C4: when two or more Free calls race on the same live handle, exactly one of
\* them returns success and every other one returns NotFound, and used is
\* decremented by the record's size exactly once.  In FreeRaceSpec the handles
\* live at the start are 1 .. nextId - 1; once every call has returned, used is
\* what the records still in the registry add up to.
C4_OneFreeWins ==
    /\ ~doubleFree
    /\ \A A \in Addrs : Cardinality(Succeeded(FreeCallers(A))) <= 1
    /\ AllDone =>
          /\ \A A \in Addrs :
                /\ (A < nextId /\ FreeCallers(A) # {}) =>
                       Cardinality(Succeeded(FreeCallers(A))) = 1
                /\ \A t \in FreeCallers(A) \ Succeeded(FreeCallers(A)) :
                       ret[t].status = STATUS_NOT_FOUND
          /\ Used = SumSizes(g_PinnedMemoryList)
          /\ \A i \in 1 .. Len(g_PinnedMemoryList) :
                FreeCallers(g_PinnedMemoryList[i].Address) = {}

\* C4 witness: two Free calls on the same live handle have both returned, one
\* with success and one with NotFound.
C4_Witness ==
    \E t, u \in Threads :
        /\ pc[t] = "done" /\ pc[u] = "done"
        /\ call[t].Address = call[u].Address
        /\ ret[t].status = STATUS_SUCCESS
        /\ ret[u].status = STATUS_NOT_FOUND

\* C5: from the empty pool, N threads that each perform one Allocate of
\* capacity/N bytes concurrently all succeed, and once all have returned no
\* increment is lost: used is N times the share, which is the capacity when N
\* divides it.
C5_AllSharesAllocated ==
    AllDone =>
        /\ \A t \in Parties : ret[t].status = STATUS_SUCCESS
        /\ Len(g_PinnedMemoryList) = Cardinality(Parties)
        /\ Used = Cardinality(Parties) * Share
        /\ AI_MEMORY_POOL_SIZE % Cardinality(Parties) = 0 => Used = AI_MEMORY_POOL_SIZE

\* C5 witness: two or more threads have allocated their shares, and the pool is full.
C5_Witness ==
    /\ AllDone
    /\ Cardinality(Parties) >= 2
    /\ Used = AI_MEMORY_POOL_SIZE
    /\ \A t \in Parties : ret[t].status = STATUS_SUCCESS

\* C6: no record is orphaned: once the teardown Cleanup has returned and every
\* call in flight has finished, the registry is empty.
C6_NoOrphanAfterTeardown ==
    (~g_PinnedMemoryInitialized /\ Quiescent) => g_PinnedMemoryList = <<>>

\* C7: for any sequence of Allocate, Free and Cleanup calls run one at a time
\* (sequences with an earlier Cleanup included), when a Cleanup call returns the
\* registry is empty, used == 0, free == capacity and the fragmentation ratio
\* is 0.
C7_CleanupEmptiesPool ==
    \A t \in Threads :
        (pc[t] = "done" /\ call[t].fn = "Cleanup") =>
            /\ g_PinnedMemoryList = <<>>
            /\ g_MemoryPoolStatus.UsedSize = 0
            /\ g_MemoryPoolStatus.FreeSize = AI_MEMORY_POOL_SIZE
            /\ g_MemoryPoolStatus.FragmentationRatio = 0

\* Thread t starts a call of fn in this step
Starts(t, fn) == pc[t] = "idle" /\ call'[t].fn = fn

\* C8: Cleanup is idempotent.  With calls run one at a time, no step of a
\* Cleanup call that starts on an empty registry, or after an earlier Cleanup
\* has returned, and that has taken no record out of the registry, changes the
\* registry, used, free or the fragmentation ratio.
C8_CleanupIdempotent ==
    [][\A t \in Threads :
          (\/ /\ Starts(t, "Cleanup")
              /\ (g_PinnedMemoryList = <<>> \/ ~g_PinnedMemoryInitialized)
           \/ /\ call[t].fn = "Cleanup" /\ pc[t] # "done"
              /\ loc'[t] = NoLoc)
          => UNCHANGED poolVars]_vars

\* C8 witness: a Cleanup that found the registry empty has reset the pool status
\* and is about to return.
C8_Witness ==
    \E t \in Threads :
        /\ pc[t] = "C_flag" /\ loc[t] = NoLoc
        /\ g_PinnedMemoryList = <<>>
        /\ g_MemoryPoolStatus = InitMemoryPoolStatus

\* C9: Allocate with size == 0 fails with InvalidParameter, called directly or
\* dispatched as AllocatePinned: the call returns in its first step with that
\* status, no address and 0 bytes written, and the registry, the pool status
\* and the system pool are unchanged.
C9_AllocateZeroInvalid ==
    [][\A t \in Threads :
          (Starts(t, "Allocate") /\ call'[t].Size = 0) =>
              /\ pc'[t] = "done"
              /\ ret'[t] = Status(STATUS_INVALID_PARAMETER)
              /\ UNCHANGED <<poolVars, backingVars>>]_vars

\* C9 witness: a request AllocatePinned with both buffers in order and the size
\* 0 in it has completed with InvalidParameter.
C9_Witness ==
    \E t \in Threads :
        /\ pc[t] = "done" /\ call[t].fn = "Allocate" /\ call[t].via = "ioctl"
        /\ call[t].inLen = SIZEOF_UINT64 /\ call[t].outLen = SIZEOF_UINT64
        /\ call[t].hasOut /\ call[t].Size = 0
        /\ ret[t].status = STATUS_INVALID_PARAMETER /\ ret[t].information = 0

\* C10 as claimed: Allocate with size > capacity fails with
\* InsufficientResources and leaves the pool state unchanged.
C10_OversizeInsufficientResources ==
    [][\A t \in Threads :
          (Starts(t, "Allocate") /\ call'[t].Size > AI_MEMORY_POOL_SIZE) =>
              /\ pc'[t] = "done"
              /\ ret'[t] = Status(STATUS_INSUFFICIENT_RESOURCES)
              /\ UNCHANGED <<poolVars, backingVars>>]_vars

\* C10 as amended: Allocate with size > capacity fails with InvalidParameter,
\* for every pool state, and leaves the pool state unchanged.
C10_OversizeInvalidParameter ==
    [][\A t \in Threads :
          (Starts(t, "Allocate") /\ call'[t].Size > AI_MEMORY_POOL_SIZE) =>
              /\ pc'[t] = "done"
              /\ ret'[t] = Status(STATUS_INVALID_PARAMETER)
              /\ UNCHANGED <<poolVars, backingVars>>]_vars

\* C10 witness: a direct Allocate of more than the pool, with a place for the
\* address, on the empty pool, has returned InvalidParameter.
C10_Witness ==
    \E t \in Threads :
        /\ pc[t] = "done" /\ call[t].fn = "Allocate" /\ call[t].via = "direct"
        /\ call[t].hasOut /\ call[t].Size > AI_MEMORY_POOL_SIZE
        /\ ret[t].status = STATUS_INVALID_PARAMETER
        /\ g_PinnedMemoryList = <<>> /\ Used = 0

\* The request of the call c reaches AllocatePinnedMemory with a place for the
\* address: a direct call with an Address pointer, or a request whose buffers
\* are there and hold a UINT64 each
AllocWellFormed(c) ==
    /\ c.fn = "Allocate" /\ c.hasOut
    /\ c.via = "ioctl" => (c.inLen >= SIZEOF_UINT64 /\ c.outLen >= SIZEOF_UINT64)

\* C11: Allocate(size) with 0 < size <= capacity and used + size > capacity
\* fails with InsufficientResources: the call returns in its first step with
\* that status, no address and 0 bytes written, it never asks the system pool
\* for a backing region, and the registry and the pool status (used, free,
\* fragmentation ratio) are unchanged.
C11_OverCapacityInsufficientResources ==
    [][\A t \in Threads :
          (/\ Starts(t, "Allocate") /\ AllocWellFormed(call'[t])
           /\ call'[t].Size > 0 /\ call'[t].Size <= AI_MEMORY_POOL_SIZE
           /\ Used + call'[t].Size > AI_MEMORY_POOL_SIZE) =>
              /\ pc'[t] = "done"
              /\ ret'[t] = Status(STATUS_INSUFFICIENT_RESOURCES)
              /\ UNCHANGED <<poolVars, backingVars>>]_vars

\* C11 witness: with 100 MiB of the 256 MiB in use, an Allocate of 200 MiB has
\* returned InsufficientResources.
C11_Witness ==
    \E t \in Threads :
        /\ pc[t] = "done" /\ AllocWellFormed(call[t])
        /\ call[t].Size = 200 * MiB
        /\ ret[t].status = STATUS_INSUFFICIENT_RESOURCES
        /\ Used = 100 * MiB /\ Len(g_PinnedMemoryList) = 1

\* C12: when a step of the backing acquisition fails (the buffer, its MDL or
\* the list entry), Allocate returns InsufficientResources with no address and
\* 0 bytes written, every block acquired in the call is back in the system
\* pool, and the registry and the pool status are as they were before the
\* call: neither the step that enters the acquisition nor the step that fails
\* in it changes them.
C12_BackingFailureRolledBack ==
    [][\A t \in Threads :
          /\ (pc[t] = "idle" /\ pc'[t] = "A_backing") =>
                 UNCHANGED <<poolVars, backingVars>>
          /\ (pc[t] = "A_backing" /\ pc'[t] = "done") =>
                 /\ ret'[t] = Status(STATUS_INSUFFICIENT_RESOURCES)
                 /\ live' = live /\ heap' = heap
                 /\ UNCHANGED poolVars]_vars

\* C12 witness: an Allocate that the pool had room for has returned
\* InsufficientResources, while a record is in the registry.
C12_Witness ==
    \E t \in Threads :
        /\ pc[t] = "done" /\ AllocWellFormed(call[t])
        /\ call[t].Size = 100
        /\ ret[t].status = STATUS_INSUFFICIENT_RESOURCES
        /\ Used = 100 * MiB /\ Len(g_PinnedMemoryList) = 1
        /\ live = RegionBlocks(g_PinnedMemoryList[1].id)

C14_HandlesUniqueWhileLive ==
    \A i \in 1 .. Len(g_PinnedMemoryList) :
        /\ g_PinnedMemoryList[i].Address # 0
        /\ g_PinnedMemoryList[i].Size > 0
        /\ g_PinnedMemoryList[i].Size <= AI_MEMORY_POOL_SIZE
        /\ \A j \in 1 .. Len(g_PinnedMemoryList) :
              i # j => g_PinnedMemoryList[i].Address # g_PinnedMemoryList[j].Address

\* C14 witness: two Allocate calls running side by side have both inserted
\* their records, which the registry holds together.
C14_Witness ==
    /\ Len(g_PinnedMemoryList) = 2
    /\ \E t, u \in Threads :
          t # u /\ pc[t] = "A_slock" /\ pc[u] = "A_slock"

\* The request of the call c reaches FreePinnedMemory's lookup or its check of
\* the address: a direct call, or a request whose input buffer is there and
\* holds a UINT64
FreeWellFormed(c) ==
    /\ c.fn = "Free"
    /\ c.via = "ioctl" => (c.inLen >= SIZEOF_UINT64 /\ c.hasOut)

\* No record in the registry has the handle A
NoLiveRecord(A) ==
    \A i \in 1 .. Len(g_PinnedMemoryList) : g_PinnedMemoryList[i].Address # A

\* Thread t takes a step of a Free call that has not yet looked the handle up,
\* for a handle that no record has
FreesUnknownHandle(t) ==
    /\ FreeWellFormed(call'[t])
    /\ pc[t] \in {"idle", "F_lock", "F_find"} /\ pc'[t] # pc[t]
    /\ NoLiveRecord(call'[t].Address)

\* C15 as claimed: Free on any handle value that has no live record (never
\* issued, already freed, drained by Cleanup; the value zero included) fails
\* with NotFound and leaves the registry, the pool status and the system pool
\* unchanged.
C15_FreeUnknownNotFound ==
    [][\A t \in Threads :
          FreesUnknownHandle(t) =>
              /\ pc'[t] \in {"F_lock", "F_find", "done"}
              /\ pc'[t] = "done" => ret'[t] = Status(STATUS_NOT_FOUND)
              /\ UNCHANGED <<poolVars, backingVars>>]_vars

\* C15 as amended: Free on a non-zero handle value that has no live record
\* fails with NotFound, Free on the value zero fails with InvalidParameter, and
\* both leave the registry, the pool status and the system pool unchanged.
C15_FreeUnknownNotFoundZeroInvalid ==
    [][\A t \in Threads :
          FreesUnknownHandle(t) =>
              /\ pc'[t] \in {"F_lock", "F_find", "done"}
              /\ pc'[t] = "done" =>
                     ret'[t] = Status(IF call'[t].Address = 0
                                      THEN STATUS_INVALID_PARAMETER
                                      ELSE STATUS_NOT_FOUND)
              /\ call'[t].Address = 0 => pc'[t] = "done"
              /\ UNCHANGED <<poolVars, backingVars>>]_vars

\* C15 witness: a dispatched Free on a non-zero handle has returned NotFound
\* after an earlier Free released a region, while the registry holds a record.
C15_Witness ==
    \E t \in Threads :
        /\ pc[t] = "done" /\ FreeWellFormed(call[t]) /\ call[t].via = "ioctl"
        /\ call[t].Address # 0
        /\ ret[t].status = STATUS_NOT_FOUND
        /\ \E i \in Ids : releasedBy[i] = "Free"
        /\ Len(g_PinnedMemoryList) = 1

\* The list without its i-th record, the others in their order
Without(list, i) ==
    [k \in 1 .. Len(list) - 1 |-> IF k < i THEN list[k] ELSE list[k + 1]]

\* C16: a successful Free(handle), run with no other call under way, removes
\* exactly the record with that handle from the registry, releases that
\* record's backing region (its buffer, MDL and entry, which were live, and no
\* other block), decreases used by exactly that record's size (and keeps
\* free == capacity - used), and leaves every other record untouched.  Step by
\* step: the lookup takes the record out, the release frees its blocks, the
\* status update subtracts its size, and no other step of the call touches the
\* registry, the pool status or the system pool; a call returns success only
\* through these steps.
C16_FreeRemovesOneRecord ==
    [][\A t \in Threads :
          (call'[t].fn = "Free" /\ pc'[t] # pc[t]) =>
              /\ (pc[t] = "F_find" /\ pc'[t] = "F_release") =>
                     \E i \in 1 .. Len(g_PinnedMemoryList) :
                         /\ g_PinnedMemoryList[i].Address = call[t].Address
                         /\ g_PinnedMemoryList' = Without(g_PinnedMemoryList, i)
                         /\ loc'[t].sizeToFree = g_PinnedMemoryList[i].Size
                         /\ loc'[t].id = g_PinnedMemoryList[i].id
                         /\ UNCHANGED <<g_MemoryPoolStatus, backingVars>>
              /\ pc[t] = "F_release" =>
                     /\ RegionBlocks(loc[t].id) \subseteq live
                     /\ live' = live \ RegionBlocks(loc[t].id)
                     /\ heap' = heap \ {call[t].Address}
                     /\ ~doubleFree'
                     /\ UNCHANGED poolVars
              /\ pc[t] = "F_stats" =>
                     /\ g_MemoryPoolStatus'.UsedSize = Used - loc[t].sizeToFree
                     /\ g_MemoryPoolStatus'.FreeSize =
                            AI_MEMORY_POOL_SIZE - (Used - loc[t].sizeToFree)
                     /\ Used - loc[t].sizeToFree = SumSizes(g_PinnedMemoryList)
                     /\ UNCHANGED <<g_PinnedMemoryList, backingVars>>
              /\ (pc[t] \notin {"F_find", "F_release", "F_stats"} \/ pc'[t] = "done") =>
                     UNCHANGED <<g_PinnedMemoryList, backingVars>>
              /\ pc[t] \notin {"F_find", "F_release", "F_stats"} =>
                     UNCHANGED g_MemoryPoolStatus
              /\ (pc'[t] = "done" /\ ret'[t].status = STATUS_SUCCESS) =>
                     /\ pc[t] = "F_stats"
                     /\ NoLiveRecord(call[t].Address)
                     /\ ret'[t].information = 0]_vars

\* C16 witness: a Free of the second of two records has succeeded: the first
\* record (100 MiB) is alone in the registry, the blocks of the second (100
\* bytes) are back in the system pool, and used is the size of the first.
C16_Witness ==
    \E t \in Threads :
        /\ pc[t] = "done" /\ call[t].fn = "Free"
        /\ ret[t].status = STATUS_SUCCESS
        /\ loc[t].sizeToFree = 100
        /\ Len(g_PinnedMemoryList) = 1
        /\ g_PinnedMemoryList[1].Size = 100 * MiB
        /\ g_PinnedMemoryList[1].id < loc[t].id
        /\ live = RegionBlocks(g_PinnedMemoryList[1].id)
        /\ Used = 100 * MiB

\* C17: Allocate followed by Free of the returned handle is a round trip.  Run
\* one at a time from a pool state, after a successful Allocate(a) used is its
\* value before plus a; an Allocate(b) whose size no longer fits then fails and
\* used stays; and the Free of the first handle then succeeds and restores the
\* registry, used, free and the fragmentation ratio to what they were before
\* the first Allocate.
C17_RoundTripRestores ==
    /\ trip.stage = "second" =>
           /\ Used = trip.status.UsedSize + trip.a
           /\ \A t \in Threads : pc[t] = "done" =>
                  ret[t].status \in {STATUS_INSUFFICIENT_RESOURCES,
                                     STATUS_INVALID_PARAMETER}
    /\ (trip.stage = "free" /\ \A t \in Threads : pc[t] # "done") =>
           Used = trip.status.UsedSize + trip.a
    /\ \A t \in Threads :
          (trip.stage = "free" /\ pc[t] = "done") =>
              /\ ret[t].status = STATUS_SUCCESS
              /\ g_PinnedMemoryList = trip.list
              /\ g_MemoryPoolStatus.UsedSize = trip.status.UsedSize
              /\ g_MemoryPoolStatus.FreeSize = trip.status.FreeSize
              /\ g_MemoryPoolStatus.FragmentationRatio = trip.status.FragmentationRatio

\* C17 witness: from the empty 256 MiB pool, Allocate(100 MiB) succeeded,
\* Allocate(200 MiB) failed, and the Free of the first handle has returned:
\* used is 0 again.
C17_Witness ==
    \E t \in Threads :
        /\ trip.stage = "free" /\ pc[t] = "done"
        /\ trip.list = <<>> /\ trip.status.UsedSize = 0
        /\ trip.a = 100 * MiB /\ trip.b = 200 * MiB
        /\ call[t].Address = trip.handle
        /\ ret[t].status = STATUS_SUCCESS
        /\ Used = 0

\* C18: GetMemoryPoolStatus is read-only.  No step of the call changes the
\* registry, a stored field of the pool status, the system pool or the
\* initialized flag, whatever runs beside it; and when it returns success the
\* snapshot it hands out has total == capacity, the used, free and
\* fragmentation ratio stored at the time of the copy, and
\* block_count == total / 4096.
C18_StatsReadOnly ==
    [][\A t \in Threads :
          (call'[t].fn = "Stats" /\ pc'[t] # pc[t]) =>
              /\ UNCHANGED <<poolVars, backingVars, g_PinnedMemoryInitialized>>
              /\ (pc'[t] = "done" /\ ret'[t].status = STATUS_SUCCESS) =>
                     /\ ret'[t].out.TotalSize = AI_MEMORY_POOL_SIZE
                     /\ ret'[t].out.UsedSize = g_MemoryPoolStatus.UsedSize
                     /\ ret'[t].out.FreeSize = g_MemoryPoolStatus.FreeSize
                     /\ ret'[t].out.FragmentationRatio =
                            g_MemoryPoolStatus.FragmentationRatio
                     /\ ret'[t].out.BlockCount = ret'[t].out.TotalSize \div 4096
                     /\ ret'[t].out.BlockCount = 65536]_vars

\* C18 witness: GetMemoryPoolStatus has returned a snapshot of a pool with
\* 200 MiB + 100 bytes in use while another call is under way.
C18_Witness ==
    \E t, u \in Threads :
        /\ pc[t] = "done" /\ call[t].fn = "Stats"
        /\ ret[t].status = STATUS_SUCCESS
        /\ ret[t].out.UsedSize = 200 * MiB + 100
        /\ ret[t].out.BlockCount = 65536
        /\ pc[u] \notin {"idle", "done"}

\* C19: the capacity never changes after initialization and free never drifts.
\* In every reachable state, and in every snapshot GetMemoryPoolStatus has
\* returned while Allocate, Free and Cleanup run beside it, total == capacity
\* and free == capacity - used (in ULONG64 arithmetic, as the code computes it).
C19_TotalFixedFreeDerived ==
    /\ g_MemoryPoolStatus.TotalSize = AI_MEMORY_POOL_SIZE
    /\ g_MemoryPoolStatus.FreeSize = AI_MEMORY_POOL_SIZE - g_MemoryPoolStatus.UsedSize
    /\ \A t \in Threads :
          (pc[t] = "done" /\ call[t].fn = "Stats"
               /\ ret[t].status = STATUS_SUCCESS) =>
              /\ ret[t].out.TotalSize = AI_MEMORY_POOL_SIZE
              /\ ret[t].out.FreeSize = AI_MEMORY_POOL_SIZE - ret[t].out.UsedSize

\* C19 witness: a snapshot taken with 200 MiB in use (56 MiB free) is in the
\* caller's hands after the pool has gone back to empty, while another call is
\* under way.
C19_Witness ==
    \E t, u \in Threads :
        /\ pc[t] = "done" /\ call[t].fn = "Stats"
        /\ ret[t].out.UsedSize = 200 * MiB
        /\ ret[t].out.FreeSize = 56 * MiB
        /\ g_MemoryPoolStatus.UsedSize = 0
        /\ g_MemoryPoolStatus.FreeSize = AI_MEMORY_POOL_SIZE
        /\ pc[u] \notin {"idle", "done"}

\* C20: in every reachable state the fragmentation ratio agrees with used: its
\* numerator over 4096 is used mod 4096 when used > 0 (used as the ULONG64 it
\* is), and the ratio is 0 when used == 0, after Allocate, Free and Cleanup
\* alike, whatever runs side by side.
C20_FragmentationAgreesWithUsed ==
    g_MemoryPoolStatus.FragmentationRatio =
        (IF g_MemoryPoolStatus.UsedSize = 0 THEN 0
         ELSE g_MemoryPoolStatus.UsedSize % 4096)

\* C20 witness: a Free has returned success and left 100 bytes in use, with the
\* ratio 100 / 4096.
C20_Witness ==
    \E t \in Threads :
        /\ pc[t] = "done" /\ call[t].fn = "Free"
        /\ ret[t].status = STATUS_SUCCESS
        /\ loc[t].sizeToFree = 200 * MiB
        /\ g_MemoryPoolStatus.UsedSize = 100
        /\ g_MemoryPoolStatus.FragmentationRatio = 100

\* ---- requests through the dispatcher
\* Thread t is handed a request
Arrives(t) == pc[t] = "idle" /\ call'[t].via = "ioctl"

\* The request of thread t is completed with the status s and no byte, before
\* any function of gpu_integration.c has been called
TurnedAway(t, s) ==
    /\ pc'[t] = "done"
    /\ ret'[t] = Status(s)
    /\ UNCHANGED <<poolVars, telemetryVars, lockVars, backingVars>>

\* The buffer sizes a handler asks for
MinOutput(code) ==
    IF code = IOCTL_AI_GET_GPU_STATUS THEN SIZEOF_PACKED_GPU_STATUS
    ELSE IF code = IOCTL_AI_GET_MEMORY_POOL THEN SIZEOF_PACKED_MEMORY_POOL_STATUS
    ELSE IF code = IOCTL_AI_GET_SCHEDULER_STATS THEN SIZEOF_PACKED_SCHEDULER_STATS
    ELSE IF code = IOCTL_AI_ALLOC_PINNED THEN SIZEOF_UINT64
    ELSE 0
MinInput(code) ==
    IF code \in {IOCTL_AI_ALLOC_PINNED, IOCTL_AI_FREE_PINNED} THEN SIZEOF_UINT64 ELSE 0
TooShort(c) == c.outLen < MinOutput(c.code) \/ c.inLen < MinInput(c.code)

\* C21, as the specification states it: a request for one of the five handled
\* commands whose buffer is there but shorter than the command's minimum is
\* completed with BUFFER_TOO_SMALL and no byte, and nothing is called.
C21_ShortBufferTooSmall ==
    [][\A t \in Threads :
          (Arrives(t) /\ call'[t].code \in HandledCodes /\ call'[t].hasOut
                      /\ TooShort(call'[t]))
          => TurnedAway(t, STATUS_BUFFER_TOO_SMALL)]_vars

\* C21, as the code has it: a request for one of the five handled commands whose
\* buffer is there but shorter than the command's minimum is completed with no
\* byte and nothing is called; the status is BUFFER_TOO_SMALL for the three
\* status commands and INVALID_PARAMETER for AllocatePinned and FreePinned.
C21_ShortBufferRejected ==
    [][\A t \in Threads :
          (Arrives(t) /\ call'[t].code \in HandledCodes /\ call'[t].hasOut
                      /\ TooShort(call'[t]))
          => TurnedAway(t, IF call'[t].code \in StatusCodes
                           THEN STATUS_BUFFER_TOO_SMALL
                           ELSE STATUS_INVALID_PARAMETER)]_vars

\* An AllocatePinned request whose output buffer is shorter than a UINT64
\* has been completed with INVALID_PARAMETER while the pool holds a record
C21_Witness ==
    \E t \in Threads :
        /\ pc[t] = "done" /\ call[t].code = IOCTL_AI_ALLOC_PINNED
        /\ call[t].hasOut /\ call[t].inLen = SIZEOF_UINT64
        /\ call[t].outLen < SIZEOF_UINT64 /\ call[t].Size = 100
        /\ ret[t] = Status(STATUS_INVALID_PARAMETER)
        /\ g_PinnedMemoryList # <<>>

ErrorsOf(code) ==
    IF code \in StatusCodes THEN {STATUS_BUFFER_TOO_SMALL, STATUS_INVALID_PARAMETER}
    ELSE IF code = IOCTL_AI_ALLOC_PINNED
    THEN {STATUS_INVALID_PARAMETER, STATUS_INSUFFICIENT_RESOURCES}
    ELSE IF code = IOCTL_AI_FREE_PINNED THEN {STATUS_INVALID_PARAMETER, STATUS_NOT_FOUND}
    ELSE IF code \in LegacyCodes THEN {STATUS_NOT_IMPLEMENTED}
    ELSE {STATUS_INVALID_DEVICE_REQUEST}

\* C23: every request is completed with a byte count fixed by its outcome: on
\* success the command's declared output size (the status structure for the
\* three status commands, 8 for AllocatePinned, 0 for FreePinned), and on any
\* other status 0 bytes, nothing in the buffer, and the status one of the error
\* statuses of the command's handler.
C23_ByteCountFixedByOutcome ==
    \A t \in Threads :
        (pc[t] = "done" /\ call[t].via = "ioctl")
        => IF ret[t].status = STATUS_SUCCESS
           THEN /\ call[t].code \in HandledCodes
                /\ ret[t].information = MinOutput(call[t].code)
           ELSE /\ ret[t] = Status(ret[t].status)
                /\ ret[t].status \in ErrorsOf(call[t].code)

\* A GetGpuStatus request has been completed with success and the size of the
\* packed GPU_STATUS, after an AllocatePinned request that left a record
C23_Witness ==
    \E t \in Threads :
        /\ pc[t] = "done" /\ call[t].code = IOCTL_AI_GET_GPU_STATUS
        /\ ret[t].status = STATUS_SUCCESS
        /\ ret[t].information = SIZEOF_PACKED_GPU_STATUS
        /\ Len(g_PinnedMemoryList) = 1

\* C24: a request whose code is none of the eight is completed with
\* INVALID_DEVICE_REQUEST and no byte, whatever its buffers; no handler is
\* called and the pool is as it was.
C24_UnknownCodeInvalidRequest ==
    [][\A t \in Threads :
          (Arrives(t) /\ call'[t].code \notin HandledCodes \cup LegacyCodes)
          => TurnedAway(t, STATUS_INVALID_DEVICE_REQUEST)]_vars

\* A request with an unknown code, a buffer and both lengths above zero has been
\* completed with INVALID_DEVICE_REQUEST while the pool holds a record
C24_Witness ==
    \E t \in Threads :
        /\ pc[t] = "done" /\ call[t].code = UnknownCode
        /\ call[t].hasOut /\ call[t].inLen = SIZEOF_UINT64
        /\ call[t].outLen = SIZEOF_GPU_STATUS
        /\ ret[t] = Status(STATUS_INVALID_DEVICE_REQUEST)
        /\ Len(g_PinnedMemoryList) = 1

\* C25: a request with one of the three legacy codes is completed with
\* NOT_IMPLEMENTED and no byte, for every combination of buffers; no handler is
\* called and the pool is as it was.
C25_LegacyNotImplemented ==
    [][\A t \in Threads :
          (Arrives(t) /\ call'[t].code \in LegacyCodes)
          => TurnedAway(t, STATUS_NOT_IMPLEMENTED)]_vars

\* A legacy request without a buffer has been completed with NOT_IMPLEMENTED
\* while the pool holds two records
C25_Witness ==
    \E t \in Threads :
        /\ pc[t] = "done" /\ call[t].code = IOCTL_AI_SET_GPU_UTIL
        /\ ~call[t].hasOut /\ call[t].inLen = 0 /\ call[t].outLen = 0
        /\ ret[t] = Status(STATUS_NOT_IMPLEMENTED)
        /\ Len(g_PinnedMemoryList) = 2

\* C26: only a successful AllocatePinned or FreePinned request changes the pool
\* (the registry, used, free, the fragmentation ratio).  With the requests served
\* one at a time, every step belongs to the one request under way, and
\*   - no step of a request with another code changes the pool;
\*   - no step of an AllocatePinned or FreePinned request changes the pool
\*     before the request has its backing region (Allocate) or has found its
\*     record (Free);
\*   - a request is completed with a status other than success only from
\*     there, by a step that leaves the pool as it is.
C26_OnlySuccessChangesPool ==
    [][\A t \in Threads :
          pc'[t] # pc[t] =>
             /\ (call'[t].via = "ioctl"
                   /\ call'[t].code \notin {IOCTL_AI_ALLOC_PINNED, IOCTL_AI_FREE_PINNED})
                => UNCHANGED poolVars
             /\ pc[t] \in {"idle", "A_backing", "F_lock"} => UNCHANGED poolVars
             /\ (pc'[t] = "done" /\ ret'[t].status # STATUS_SUCCESS)
                => (pc[t] \in {"idle", "A_backing", "F_find"} /\ UNCHANGED poolVars)]_vars

\* A FreePinned request for an address that no record has was completed with
\* NOT_FOUND after the search, and a GetSchedulerStats request before it has
\* left its statistics, while the pool holds a record of 100 bytes
C26_Witness ==
    \E t \in Threads :
        /\ pc[t] = "done" /\ call[t].code = IOCTL_AI_FREE_PINNED
        /\ ret[t] = Status(STATUS_NOT_FOUND)
        /\ g_SchedulerStats.AiProcesses = 2
        /\ Len(g_PinnedMemoryList) = 1
        /\ g_MemoryPoolStatus.UsedSize = 100

\* C27: every Allocate, Free and Cleanup call runs to completion: with finitely
\* many callers, a fair scheduler and a system pool that answers, each call
\* that has started returns, whatever the other callers do in between (the
\* loop of Cleanup, which takes and releases the list lock once per record,
\* included).
C27_EveryCallReturns ==
    \A t \in Threads : (pc[t] \notin {"idle", "done"}) ~> (pc[t] = "done")

\* A Cleanup and an Allocate that ran side by side have both returned, the
\* Allocate with success, and the loop of Cleanup has taken the record of the
\* Allocate with the one the pool held
C27_Witness ==
    \E t, u \in Threads :
        /\ pc[t] = "done" /\ call[t].fn = "Cleanup"
        /\ pc[u] = "done" /\ call[u].fn = "Allocate"
        /\ ret[u].status = STATUS_SUCCESS
        /\ g_PinnedMemoryList = <<>>
        /\ nextId = 3
        /\ live = {}

\* C28: the list lock covers the updates of the list only: the system pool is
\* asked for a region or given one back only by the steps of Allocate that
\* precede the lock, of Free that follow it, and of Cleanup between two turns
\* of its loop, and the caller that takes such a step does not hold the list
\* lock, neither before the step nor after it.
C28_BackingOutsideLock ==
    [][\A t \in Threads :
          pc'[t] # pc[t] =>
             /\ backingVars' # backingVars
                => pc[t] \in {"A_backing", "F_release", "C_release"}
             /\ pc[t] \in {"A_backing", "F_release", "C_release"}
                => (g_PinnedMemoryLock # t /\ g_PinnedMemoryLock' # t)]_vars

\* Cleanup is about to release the region of a record it took off the list,
\* and meanwhile another caller holds the list lock
C28_Witness ==
    \E t, u \in Threads :
        /\ t # u
        /\ pc[t] = "C_release"
        /\ <<loc[t].id, "buffer">> \in live
        /\ g_PinnedMemoryLock = u

\* C29: the size the dispatcher's handler checks is the size the provider
\* works with: a GetGpuStatus, GetMemoryPoolStatus or GetSchedulerStats request
\* with an output buffer that is there and at least as long as the packed
\* structure is completed with success, reports the packed size, and has had no
\* more than the reported number of bytes written into its buffer.
C29_ValidatedSizeIsProviderSize ==
    \A t \in Threads :
        (/\ pc[t] = "done" /\ call[t].via = "ioctl"
         /\ call[t].code \in StatusCodes
         /\ call[t].hasOut /\ call[t].outLen >= MinOutput(call[t].code))
        => /\ ret[t].status = STATUS_SUCCESS
           /\ ret[t].information = MinOutput(call[t].code)
           /\ ret[t].written <= ret[t].information

\* C30: used never underflows: no step subtracts from used a size larger than
\* used is at that moment (as the unsigned 64-bit values they are), whatever
\* Allocate, Free and Cleanup calls run side by side.
C30_UsedNeverUnderflows ==
    [][\A t \in Threads :
          (pc[t] = "F_stats" /\ pc'[t] # "F_stats")
          => ~U64GT(loc[t].sizeToFree, Used)]_vars

\* ---- the bookkeeping of used
\* The sum of f over the threads in T
RECURSIVE Total(_, _)
Total(f, T) ==
    IF T = {} THEN 0
    ELSE LET t == CHOOSE u \in T : TRUE IN f[t] + Total(f, T \ {t})

\* The sizes of the Allocate calls between InsertTailList (line 446) and
\* UsedSize += Size (line 450)
InsertedNotCounted ==
    Total([t \in Threads |-> call[t].Size],
          {t \in Threads : pc[t] \in {"A_slock", "A_stats"}})

\* The sizes of the Free calls between RemoveEntryList (line 486) and
\* UsedSize -= sizeToFree (line 512)
RemovedNotDecremented ==
    Total([t \in Threads |-> loc[t].sizeToFree],
          {t \in Threads : pc[t] \in {"F_release", "F_slock", "F_stats"}})

\* C31: with concurrent Allocate and Free callers and no Cleanup, in every
\* reachable state used is the sum of the sizes of the records in the list,
\* minus the sizes of the Allocate calls that have inserted their record and
\* not yet added its size, plus the sizes of the Free calls that have removed
\* their record and not yet subtracted its size (used as the ULONG64 it is:
\* the two sides are equal modulo 2^64).
C31_UsedTracksRegistry ==
    Used = SumSizes(g_PinnedMemoryList) - InsertedNotCounted + RemovedNotDecremented

\* An Allocate has inserted its record of 200 MiB and not yet counted it, and a
\* Free has removed that record from the list and not yet subtracted its size
C31_Witness ==
    \E t, u \in Threads :
        /\ pc[t] = "A_slock" /\ call[t].Size = 200 * MiB
        /\ pc[u] = "F_slock" /\ loc[u].sizeToFree = 200 * MiB
        /\ loc[u].id = loc[t].id
        /\ g_PinnedMemoryList = <<>>
        /\ Used = 0

\* C33: when the requests are served strictly one at a time, as the sequential
\* queue of the device has it, then after every request of any sequence of
\* AllocatePinned, FreePinned and status requests used <= capacity (used not
\* wrapped below zero either) and the sizes of the records in the list add up
\* to used.
C33_SequentialPoolConsistent ==
    Quiescent =>
        /\ ~U64GT(Used, AI_MEMORY_POOL_SIZE)
        /\ Used >= 0
        /\ SumSizes(g_PinnedMemoryList) = Used

\* An AllocatePinned request for 200 MiB has been refused for lack of room
\* after two requests were granted, and the pool holds two records that add up
\* to used
C33_Witness ==
    \E t \in Threads :
        /\ pc[t] = "done" /\ call[t].code = IOCTL_AI_ALLOC_PINNED
        /\ call[t].Size = 200 * MiB
        /\ ret[t].status = STATUS_INSUFFICIENT_RESOURCES
        /\ Len(g_PinnedMemoryList) = 2
        /\ Used = 200 * MiB + 100
        /\ g_GpuStatus # NoGpuStatus

\* C32: the two spinlocks are never nested: in every reachable state no caller
\* holds the list lock and the stats lock at once, and so the callers of
\* Allocate, Free, Cleanup and the three status functions never block one
\* another for good: whenever a call is under way, some call under way can take
\* its next step.
C32_LocksNeverNested ==
    /\ \A t \in Threads : ~(g_PinnedMemoryLock = t /\ g_StatsLock = t)
    /\ (\E t \in Threads : pc[t] \notin {"idle", "done"})
       => ENABLED (\E t \in Threads : LockStep(t))

\* Both locks are held at once, by two callers: Cleanup is in its loop with the
\* list lock and GetGpuStatus is caching its status with the stats lock
C32_Witness ==
    \E t, u \in Threads :
        /\ pc[t] = "C_loop" /\ g_PinnedMemoryLock = t
        /\ pc[u] = "U_copy" /\ g_StatsLock = u
        /\ g_PinnedMemoryList # <<>>

\* C34: the callback completes every request exactly once: on each of its paths
\* (no device, no IRP, each of the eight codes, an unknown code) the request
\* has been completed no time while it is under way and one time when the
\* callback has returned, and every request handed to the callback gets there.
C34_CompletedExactlyOnce ==
    /\ [](\A t \in Threads :
             call[t].via = "ioctl"
             => completions[t] = (IF pc[t] = "done" THEN 1 ELSE 0))
    /\ \A t \in Threads : (call[t].via = "ioctl") ~> (completions[t] = 1)

\* A FreePinned request whose IRP could not be had has been completed, once,
\* with INVALID_PARAMETER, after an AllocatePinned request that went through
\* its handler and left a record
C34_Witness ==
    \E t \in Threads :
        /\ pc[t] = "done" /\ call[t].code = IOCTL_AI_FREE_PINNED
        /\ call[t].hasDevice /\ ~call[t].hasIrp
        /\ call[t].Address = 1 /\ call[t].hasOut /\ call[t].inLen >= SIZEOF_UINT64
        /\ ret[t] = Status(STATUS_INVALID_PARAMETER)
        /\ completions[t] = 1
        /\ Len(g_PinnedMemoryList) = 1

====
